---------------------------- MODULE Spec2Model ----------------------------
(***************************************************************************)
(* Model of the coil drawing core: the parameter record and its            *)
(* validation (core/parameters.py) and the four per-view geometry          *)
(* generators (core/geometry_engine.py).                                   *)
(*                                                                         *)
(* Numbers.  The code computes in Python floats (IEEE-754 binary64, round  *)
(* to nearest, ties to even).  A float is modelled as a pair <<m, e>>      *)
(* standing for m * 2^e, m odd or <<0, 0>>, with at most MantBits          *)
(* significant bits; every operation computes the exact result and rounds  *)
(* it to MantBits bits, ties to even, as the hardware does with 53 bits.   *)
(* Exponent overflow, subnormals, signed zeros, infinities and NaN are     *)
(* outside the value ranges used here and are not modelled.                *)
(***************************************************************************)
EXTENDS Integers, Sequences, FiniteSets, TLC

\* Significand width of the modelled floats (53 in the running program).
MantBits == 11

\* ------------------------------------------------------------------------
\*  Float arithmetic
\* ------------------------------------------------------------------------

Abs(n) == IF n < 0 THEN -n ELSE n

Sgn(n) == IF n < 0 THEN -1 ELSE 1

RECURSIVE BitLen(_)
\* number of bits of a natural number (0 for 0)
BitLen(n) == IF n = 0 THEN 0 ELSE 1 + BitLen(n \div 2)

RECURSIVE Norm(_, _)
\* canonical form of m * 2^e: the mantissa odd, zero as <<0, 0>>
Norm(m, e) == IF m = 0 THEN <<0, 0>>
              ELSE IF m % 2 = 0 THEN Norm(m \div 2, e + 1)
              ELSE <<m, e>>

\* n * 2^e rounded to MantBits significant bits, ties to even
Round(n, e) ==
    LET a == Abs(n)
        L == BitLen(a)
    IN  IF L <= MantBits THEN Norm(n, e)
        ELSE LET k    == L - MantBits
                 q    == a \div 2^k
                 r    == a % 2^k
                 half == 2^(k-1)
                 up   == IF r > half \/ (r = half /\ q % 2 = 1) THEN 1 ELSE 0
             IN  Norm(Sgn(n) * (q + up), e + k)

\* float(i) for an int i
FromInt(i) == Round(i, 0)

Zero == <<0, 0>>

FNeg(x) == <<-x[1], x[2]>>

FAbs(x) == <<Abs(x[1]), x[2]>>

\* exponent of the leading bit plus one: |x| < 2^Mag(x)
Mag(x) == x[2] + BitLen(Abs(x[1]))

\* x + y.  When y lies wholly below the rounding position of x it acts as a
\* sticky bit only, which keeps the aligned integers small.
FAdd(x, y) ==
    IF x[1] = 0 THEN y
    ELSE IF y[1] = 0 THEN x
    ELSE IF Mag(x) - Mag(y) >= MantBits + 3
         THEN LET k == MantBits + 2 - BitLen(Abs(x[1]))
              IN  Round(2 * x[1] * 2^k + Sgn(y[1]), x[2] - k - 1)
    ELSE IF Mag(y) - Mag(x) >= MantBits + 3
         THEN LET k == MantBits + 2 - BitLen(Abs(y[1]))
              IN  Round(2 * y[1] * 2^k + Sgn(x[1]), y[2] - k - 1)
    ELSE LET e == IF x[2] < y[2] THEN x[2] ELSE y[2]
         IN  Round(x[1] * 2^(x[2] - e) + y[1] * 2^(y[2] - e), e)

FSub(x, y) == FAdd(x, FNeg(y))

FMul(x, y) == Round(x[1] * y[1], x[2] + y[2])

\* x / y for y # 0 (Python raises ZeroDivisionError for y = 0: the callers
\* test for it).  The quotient is taken to MantBits + 2 bits and the
\* remainder kept as a sticky bit, so that Round sees the exact position.
FDiv(x, y) ==
    IF x[1] = 0 THEN Zero
    ELSE LET a  == Abs(x[1])
             b  == Abs(y[1])
             d  == MantBits + 2 + BitLen(b) - BitLen(a)
             sh == IF d < 0 THEN 0 ELSE d
             q  == (a * 2^sh) \div b
             r  == (a * 2^sh) % b
             st == IF r = 0 THEN 0 ELSE 1
         IN  Round(Sgn(x[1]) * Sgn(y[1]) * (2 * q + st), x[2] - y[2] - sh - 1)

\* sign of the exact difference x - y: -1, 0 or 1
FCmp(x, y) ==
    IF x[1] = 0 \/ y[1] = 0 \/ Sgn(x[1]) # Sgn(y[1])
    THEN (IF x[1] < y[1] THEN -1 ELSE IF x[1] > y[1] THEN 1 ELSE 0)
    ELSE IF Mag(x) # Mag(y)
         THEN (IF Mag(x) < Mag(y) THEN -Sgn(x[1]) ELSE Sgn(x[1]))
    ELSE LET e == IF x[2] < y[2] THEN x[2] ELSE y[2]
             a == x[1] * 2^(x[2] - e)
             b == y[1] * 2^(y[2] - e)
         IN  IF a < b THEN -1 ELSE IF a > b THEN 1 ELSE 0

FLt(x, y) == FCmp(x, y) < 0

FLe(x, y) == FCmp(x, y) <= 0

FGe(x, y) == FCmp(x, y) >= 0

FMin(x, y) == IF FLt(y, x) THEN y ELSE x

\* int(x): truncation toward zero
FTrunc(x) ==
    IF x[2] >= 0 THEN x[1] * 2^x[2]
    ELSE Sgn(x[1]) * (Abs(x[1]) \div 2^(-x[2]))

\* max(a, b) of two ints
IMax(a, b) == IF a < b THEN b ELSE a

\* the decimal literal n / 10^k, rounded once as the Python parser rounds it
Dec(n, k) == FDiv(<<n, 0>>, <<10^k, 0>>)

\* ------------------------------------------------------------------------
\*  core/parameters.py
\* ------------------------------------------------------------------------

\* CoilParameters(): the dataclass with its default field values
DefaultParams ==
    [ fin_length                    |-> FromInt(1330),
      fin_height                    |-> FromInt(1400),
      no_of_rows                    |-> 6,
      tubes_per_row                 |-> 35,
      tube_od_inch                  |-> "5/8",
      tube_diameter                 |-> Dec(15875, 3),
      fpi                           |-> 13,
      no_of_circuits                |-> 35,
      top_plate                     |-> FromInt(65),
      bottom_plate                  |-> FromInt(35),
      casing_left                   |-> FromInt(35),
      casing_right                  |-> FromInt(65),
      casing_top                    |-> FromInt(15),
      casing_bottom                 |-> FromInt(15),
      casing_thickness              |-> Dec(15, 1),
      coil_depth                    |-> Dec(2076, 1),
      header_depth                  |-> FromInt(320),
      return_depth                  |-> FromInt(320),
      connection_side               |-> "LHS",
      connection_extension          |-> FromInt(170),
      connection_vertical_gap       |-> FromInt(75),
      top_header_block_length       |-> FromInt(180),
      top_return_extension          |-> FromInt(145),
      top_right_step                |-> FromInt(12),
      top_pipe_fitting_outer_offset |-> FromInt(50),
      top_pipe_fitting_inner_offset |-> FromInt(25),
      top_pipe_stub_center_offset   |-> FromInt(50),
      top_pipe_stub_spacing         |-> FromInt(12),
      front_left_reference_extra    |-> FromInt(150),
      fin_material                  |-> "Plain Aluminium",
      fin_thickness                 |-> Dec(11, 2),
      tube_wall_thickness           |-> Dec(4, 1) ]

\* casing_width with the right-hand extension forgotten
casing_width_without_right(p) == FAdd(p.casing_left, p.fin_length)

\* CoilParameters.casing_width
casing_width(p) == FAdd(FAdd(p.casing_left, p.fin_length), p.casing_right)

\* CoilParameters.casing_height
casing_height(p) == FAdd(FAdd(p.casing_bottom, p.fin_height), p.casing_top)

\* vertical_pitch dividing by the number of tubes, not of gaps
vertical_pitch_per_tube(p) ==
    IF p.tubes_per_row <= 1 THEN Zero
    ELSE FDiv(FSub(FSub(p.fin_height, p.top_plate), p.bottom_plate),
              FromInt(p.tubes_per_row))

\* CoilParameters.vertical_pitch
vertical_pitch(p) ==
    IF p.tubes_per_row <= 1 THEN Zero
    ELSE FDiv(FSub(FSub(p.fin_height, p.top_plate), p.bottom_plate),
              FromInt(p.tubes_per_row - 1))

\* row_pitch guarding against a zero divisor only
row_pitch_single_row(p) ==
    IF p.no_of_rows <= 0 THEN Zero
    ELSE FDiv(p.coil_depth, FromInt(p.no_of_rows))

\* CoilParameters.row_pitch
row_pitch(p) ==
    IF p.no_of_rows <= 1 THEN Zero
    ELSE FDiv(p.coil_depth, FromInt(p.no_of_rows))

\* the fields of validate_parameters' first loop, in its order
PositiveNames ==
    << "fin_length", "fin_height", "tube_diameter",
       "casing_top", "casing_bottom", "casing_left", "casing_right",
       "casing_thickness", "coil_depth", "header_depth",
       "connection_extension", "connection_vertical_gap",
       "top_header_block_length", "top_return_extension", "top_right_step",
       "top_pipe_fitting_outer_offset", "top_pipe_fitting_inner_offset",
       "top_pipe_stub_center_offset", "top_pipe_stub_spacing",
       "front_left_reference_extra" >>

\* the fields of validate_parameters' second loop, in its order
CountNames == << "no_of_rows", "tubes_per_row", "fpi" >>

PlateMessage == "Top plate + Bottom plate must be < Fin Height"

RECURSIVE PositiveErrors(_, _)
\* first loop from index i on: one message per field that is <= 0
PositiveErrors(p, i) ==
    IF i > Len(PositiveNames) THEN <<>>
    ELSE (IF FLe(p[PositiveNames[i]], Zero)
          THEN << PositiveNames[i] \o " must be positive" >>
          ELSE <<>>) \o PositiveErrors(p, i + 1)

RECURSIVE CountErrors(_, _)
\* second loop from index i on: one message per field that is < 1
CountErrors(p, i) ==
    IF i > Len(CountNames) THEN <<>>
    ELSE (IF p[CountNames[i]] < 1
          THEN << CountNames[i] \o " must be >= 1" >>
          ELSE <<>>) \o CountErrors(p, i + 1)

\* the final test of validate_parameters
PlateErrors(p) ==
    IF FGe(FAdd(p.top_plate, p.bottom_plate), p.fin_height)
    THEN << PlateMessage >>
    ELSE <<>>

\* validate_parameters returning at the first violation found
validate_fail_fast(p) ==
    LET all == PositiveErrors(p, 1) \o CountErrors(p, 1) \o PlateErrors(p)
    IN  [ errors |-> IF all = <<>> THEN <<>> ELSE <<all[1]>>,
          params |-> p,
          raised |-> FALSE ]

\* validate_parameters reporting the count fields without naming them
validate_unnamed_counts(p) ==
    LET counts == CountErrors(p, 1)
    IN  [ errors |-> PositiveErrors(p, 1)
                       \o [i \in 1..Len(counts) |-> "value must be >= 1"]
                       \o PlateErrors(p),
          params |-> p,
          raised |-> FALSE ]

\* validate_parameters correcting the row count it rejects
validate_clamping(p) ==
    [ errors |-> PositiveErrors(p, 1) \o CountErrors(p, 1) \o PlateErrors(p),
      params |-> [p EXCEPT !.no_of_rows = IMax(1, p.no_of_rows)],
      raised |-> FALSE ]

\* validate_parameters(params): the returned list, the record as the call
\* leaves it, and whether the call raised
validate_parameters(p) ==
    [ errors |-> PositiveErrors(p, 1) \o CountErrors(p, 1) \o PlateErrors(p),
      params |-> p,
      raised |-> FALSE ]

\* ------------------------------------------------------------------------
\*  core/geometry_engine.py
\* ------------------------------------------------------------------------

\* a call that returned the value v
Returned(v) == [raised |-> FALSE, exc |-> "", value |-> v]

\* a call that raised the exception named e
Raised(e) == [raised |-> TRUE, exc |-> e, value |-> <<>>]

Two == FromInt(2)

Three == FromInt(3)

Four == FromInt(4)

\* for i in range(0, n_fins, step): the candidate line of the k-th pass
FinLineAt(p, fin_spacing, step, k) ==
    LET y == FAdd(p.casing_bottom, FMul(FromInt((k - 1) * step), fin_spacing))
    IN  <<p.casing_left, y, FAdd(p.casing_left, p.fin_length), y>>

\* the fin lines with every fin drawn
FinLines_every_fin(p, fin_spacing) ==
    LET n_fins == FTrunc(FDiv(p.fin_height, fin_spacing))
        step   == 1
        passes == IF n_fins <= 0 THEN 0 ELSE (n_fins + step - 1) \div step
        top    == FAdd(p.casing_bottom, p.fin_height)
        cand   == IF passes = 0 THEN <<>>
                  ELSE [k \in 1..passes |-> FinLineAt(p, fin_spacing, step, k)]
    IN  SelectSeq(cand, LAMBDA l : FLt(l[2], top))

\* the representative fin lines of the front view
FinLines(p, fin_spacing) ==
    LET n_fins == FTrunc(FDiv(p.fin_height, fin_spacing))
        step   == IMax(1, n_fins \div 40)
        passes == IF n_fins <= 0 THEN 0 ELSE (n_fins + step - 1) \div step
        top    == FAdd(p.casing_bottom, p.fin_height)
        cand   == IF passes = 0 THEN <<>>
                  ELSE [k \in 1..passes |-> FinLineAt(p, fin_spacing, step, k)]
    IN  SelectSeq(cand, LAMBDA l : FLt(l[2], top))

\* generate_front_geometry(params); 25.4 / params.fpi raises for fpi = 0
generate_front_geometry(p) ==
    IF p.fpi = 0 THEN Raised("ZeroDivisionError")
    ELSE Returned(
        [ view_type  |-> "FRONT",
          outer_rect |-> <<Zero, Zero, casing_width(p), casing_height(p)>>,
          fin_rect   |-> <<p.casing_left, p.casing_bottom, p.fin_length, p.fin_height>>,
          fin_lines  |-> FinLines(p, FDiv(Dec(254, 1), FromInt(p.fpi))),
          params     |-> p ])

\* y_start with every row starting at VP/4: no stagger
RowStart_unstaggered(grid_y, VP, row) == FAdd(grid_y, FDiv(VP, Four))

\* y_start of a row of the side views: grid_y + VP/4 or grid_y + 3*VP/4
RowStart(grid_y, VP, row) ==
    FAdd(grid_y, IF row % 2 = 0 THEN FDiv(VP, Four)
                 ELSE FDiv(FMul(Three, VP), Four))

\* cx of a row of the header-side view with the rows counted from one
HeaderRowX_one_based(grid_x, RP, row) ==
    FAdd(FAdd(grid_x, FDiv(RP, Two)), FMul(FromInt(row + 1), RP))

\* cx of a row of the header-side view
HeaderRowX(grid_x, RP, row) ==
    FAdd(FAdd(grid_x, FDiv(RP, Two)), FMul(FromInt(row), RP))

\* cx of a row of the return-end view counted from the left like the
\* header-side row: no mirror
ReturnRowX_unmirrored(grid_x, grid_w, RP, row) ==
    FAdd(FAdd(grid_x, FDiv(RP, Two)), FMul(FromInt(row), RP))

\* cx of a row of the return-end view: the mirror of the header-side row
ReturnRowX(grid_x, grid_w, RP, row) ==
    FSub(FAdd(grid_x, grid_w), FAdd(FDiv(RP, Two), FMul(FromInt(row), RP)))

\* the tubes list with the tube loop one pass short
SideTubes_short_rows(p, xs, grid_y) ==
    LET NR  == p.no_of_rows
        TPR == p.tubes_per_row - 1
        VP  == vertical_pitch(p)
        r   == FDiv(p.tube_diameter, Two)
    IN  IF NR <= 0 \/ TPR <= 0 THEN <<>>
        ELSE [ i \in 1..(NR * TPR) |->
                 LET row == (i - 1) \div TPR
                     t   == (i - 1) % TPR
                 IN  << xs[row],
                        FAdd(RowStart(grid_y, VP, row), FMul(FromInt(t), VP)),
                        r >> ]

\* the tubes list of a side view: rows outermost, tubes of a row innermost;
\* xs[row] is the row's cx
SideTubes(p, xs, grid_y) ==
    LET NR  == p.no_of_rows
        TPR == p.tubes_per_row
        VP  == vertical_pitch(p)
        r   == FDiv(p.tube_diameter, Two)
    IN  IF NR <= 0 \/ TPR <= 0 THEN <<>>
        ELSE [ i \in 1..(NR * TPR) |->
                 LET row == (i - 1) \div TPR
                     t   == (i - 1) % TPR
                 IN  << xs[row],
                        FAdd(RowStart(grid_y, VP, row), FMul(FromInt(t), VP)),
                        r >> ]

\* the side view with the front view's casing height for its height
SideView_casing_height(p, view_type, depth, mirrored) ==
    LET TP     == p.top_plate
        BP     == p.bottom_plate
        NR     == p.no_of_rows
        TPR    == p.tubes_per_row
        VP     == vertical_pitch(p)
        RP     == row_pitch(p)
        CH     == casing_height(p)
        bp_y   == BP
        tp_y   == FSub(CH, TP)
        grid_w == FMul(RP, FromInt(NR))
        grid_h == FMul(FromInt(TPR), VP)
        grid_x == FDiv(FSub(depth, grid_w), Two)
        grid_y == bp_y
        xs     == [ row \in 0..(NR - 1) |->
                      IF mirrored THEN ReturnRowX(grid_x, grid_w, RP, row)
                      ELSE HeaderRowX(grid_x, RP, row) ]
    IN  [ view_type    |-> view_type,
          outer_rect   |-> <<Zero, Zero, depth, CH>>,
          inner_rect   |-> <<grid_x, grid_y, grid_w, grid_h>>,
          offset_lines |-> << <<Zero, bp_y, depth, bp_y>>,
                              <<Zero, tp_y, depth, tp_y>> >>,
          tubes        |-> SideTubes(p, xs, grid_y),
          params       |-> p ]

\* the side view with the grid height alone for its height
SideView_without_plates(p, view_type, depth, mirrored) ==
    LET TP     == p.top_plate
        BP     == p.bottom_plate
        NR     == p.no_of_rows
        TPR    == p.tubes_per_row
        VP     == vertical_pitch(p)
        RP     == row_pitch(p)
        CH     == FMul(FromInt(TPR), VP)
        bp_y   == BP
        tp_y   == FSub(CH, TP)
        grid_w == FMul(RP, FromInt(NR))
        grid_h == FMul(FromInt(TPR), VP)
        grid_x == FDiv(FSub(depth, grid_w), Two)
        grid_y == bp_y
        xs     == [ row \in 0..(NR - 1) |->
                      IF mirrored THEN ReturnRowX(grid_x, grid_w, RP, row)
                      ELSE HeaderRowX(grid_x, RP, row) ]
    IN  [ view_type    |-> view_type,
          outer_rect   |-> <<Zero, Zero, depth, CH>>,
          inner_rect   |-> <<grid_x, grid_y, grid_w, grid_h>>,
          offset_lines |-> << <<Zero, bp_y, depth, bp_y>>,
                              <<Zero, tp_y, depth, tp_y>> >>,
          tubes        |-> SideTubes(p, xs, grid_y),
          params       |-> p ]

\* the body shared by the two side views; depth is header_depth or return_depth
SideView(p, view_type, depth, mirrored) ==
    LET TP     == p.top_plate
        BP     == p.bottom_plate
        NR     == p.no_of_rows
        TPR    == p.tubes_per_row
        VP     == vertical_pitch(p)
        RP     == row_pitch(p)
        CH     == FAdd(FAdd(FMul(FromInt(TPR), VP), TP), BP)
        bp_y   == BP
        tp_y   == FSub(CH, TP)
        grid_w == FMul(RP, FromInt(NR))
        grid_h == FMul(FromInt(TPR), VP)
        grid_x == FDiv(FSub(depth, grid_w), Two)
        grid_y == bp_y
        xs     == [ row \in 0..(NR - 1) |->
                      IF mirrored THEN ReturnRowX(grid_x, grid_w, RP, row)
                      ELSE HeaderRowX(grid_x, RP, row) ]
    IN  [ view_type    |-> view_type,
          outer_rect   |-> <<Zero, Zero, depth, CH>>,
          inner_rect   |-> <<grid_x, grid_y, grid_w, grid_h>>,
          offset_lines |-> << <<Zero, bp_y, depth, bp_y>>,
                              <<Zero, tp_y, depth, tp_y>> >>,
          tubes        |-> SideTubes(p, xs, grid_y),
          params       |-> p ]

\* generate_header_geometry(params)
generate_header_geometry(p) ==
    Returned(SideView(p, "HEADER_SIDE", p.header_depth, FALSE))

\* generate_return_geometry(params)
generate_return_geometry(p) ==
    Returned(SideView(p, "RETURN_END", p.return_depth, TRUE))

\* yc of a tube row of the top view: margin + RP/2 + row*RP
TopRowY(margin, RP, row) ==
    FAdd(FAdd(margin, FDiv(RP, Two)), FMul(FromInt(row), RP))

\* tube_lines of the top view: the top and the bottom edge of each row
TubeLines(p, margin, x0, CW) ==
    LET NR     == p.no_of_rows
        RP     == row_pitch(p)
        tube_r == FDiv(p.tube_diameter, Two)
    IN  IF NR <= 0 THEN <<>>
        ELSE [ i \in 1..(2 * NR) |->
                 LET yc == TopRowY(margin, RP, (i - 1) \div 2)
                     y  == IF i % 2 = 1 THEN FSub(yc, tube_r) ELSE FAdd(yc, tube_r)
                 IN  <<x0, y, CW, y>> ]

\* bend_arcs with an arc between every two neighbouring rows
BendArcs_every_row(p, margin, CW) ==
    LET NR == p.no_of_rows
        RP == row_pitch(p)
    IN  IF NR <= 1 THEN <<>>
        ELSE [ k \in 1..(NR - 1) |->
                 LET row == k - 1
                     y1  == TopRowY(margin, RP, row)
                     y2  == TopRowY(margin, RP, row + 1)
                 IN  << FAdd(CW, p.casing_right),
                        FDiv(FAdd(y1, y2), Two),
                        FDiv(FSub(y2, y1), Two),
                        FromInt(-90), FromInt(180) >> ]

\* bend_arcs of the top view: for row in range(0, NR - 1, 2)
BendArcs(p, margin, CW) ==
    LET NR == p.no_of_rows
        RP == row_pitch(p)
    IN  IF NR <= 1 THEN <<>>
        ELSE [ k \in 1..(NR \div 2) |->
                 LET row == 2 * (k - 1)
                     y1  == TopRowY(margin, RP, row)
                     y2  == TopRowY(margin, RP, row + 1)
                 IN  << FAdd(CW, p.casing_right),
                        FDiv(FAdd(y1, y2), Two),
                        FDiv(FSub(y2, y1), Two),
                        FromInt(-90), FromInt(180) >> ]

\* one entry of connection_pipes
Pipe(x1, x2, y, label, label_x) ==
    [line |-> <<x1, y, x2, y>>, label |-> label, label_pos |-> <<label_x, y>>]

\* one pipe stub: a vertical segment at x across the pipe centred at y
Stub(x, y, pipe_r) == <<x, FSub(y, pipe_r), x, FAdd(y, pipe_r)>>

\* generate_top_geometry(params)
generate_top_geometry(p) ==
    LET CW     == casing_width(p)
        HD     == p.header_depth
        CD     == p.coil_depth
        tube_r == FDiv(p.tube_diameter, Two)
        margin == FDiv(FSub(HD, CD), Two)
        pipe_ext == p.connection_extension
        pipe_gap == p.connection_vertical_gap
        header_block_len == FMin(p.top_header_block_length, CW)
        return_ext == p.top_return_extension
        fit_outer_off == p.top_pipe_fitting_outer_offset
        fit_inner_off == p.top_pipe_fitting_inner_offset
        stub_center_off == p.top_pipe_stub_center_offset
        half_spacing == FDiv(p.top_pipe_stub_spacing, Two)
        pipe_r     == tube_r
        y_centre   == FDiv(HD, Two)
        pipe_y_in  == FSub(y_centre, FDiv(pipe_gap, Two))
        pipe_y_out == FAdd(y_centre, FDiv(pipe_gap, Two))
        lhs        == p.connection_side = "LHS"
        \* LHS branch
        l_tip    == FNeg(pipe_ext)
        l_outer  == FAdd(FNeg(pipe_ext), fit_outer_off)
        l_inner  == FSub(header_block_len, fit_inner_off)
        l_stub_a == FSub(FAdd(FNeg(pipe_ext), stub_center_off), half_spacing)
        l_stub_b == FAdd(FAdd(FNeg(pipe_ext), stub_center_off), half_spacing)
        \* RHS branch
        r_start  == FSub(CW, header_block_len)
        r_tip    == FAdd(CW, pipe_ext)
        r_outer  == FSub(FAdd(CW, pipe_ext), fit_outer_off)
        r_inner  == FAdd(FSub(CW, header_block_len), fit_inner_off)
        r_label  == FAdd(FAdd(CW, pipe_ext), FromInt(15))
    IN  Returned(
        [ view_type         |-> "TOP",
          outer_rect        |-> <<Zero, Zero, CW, HD>>,
          header_block_rect |-> <<Zero, margin, FMin(header_block_len, CW), CD>>,
          fin_rect          |-> <<p.casing_left, margin, p.fin_length, CD>>,
          zone_lines        |-> << <<header_block_len, margin, CW, margin>>,
                                   <<header_block_len, FAdd(margin, CD),
                                     CW, FAdd(margin, CD)>> >>,
          tube_lines        |-> TubeLines(p, margin, header_block_len, CW),
          connection_pipes  |->
              IF lhs
              THEN << Pipe(l_tip, header_block_len, pipe_y_in, "IN",
                           FSub(FNeg(pipe_ext), FromInt(20))),
                      Pipe(l_tip, header_block_len, pipe_y_out, "OUT",
                           FSub(FNeg(pipe_ext), FromInt(25))) >>
              ELSE << Pipe(r_start, r_tip, pipe_y_in, "IN", r_label),
                      Pipe(r_start, r_tip, pipe_y_out, "OUT", r_label) >>,
          pipe_circles      |->
              IF lhs
              THEN << <<l_outer, pipe_y_in, pipe_r>>, <<l_inner, pipe_y_in, pipe_r>>,
                      <<l_outer, pipe_y_out, pipe_r>>, <<l_inner, pipe_y_out, pipe_r>> >>
              ELSE << <<r_outer, pipe_y_in, pipe_r>>, <<r_inner, pipe_y_in, pipe_r>>,
                      <<r_outer, pipe_y_out, pipe_r>>, <<r_inner, pipe_y_out, pipe_r>> >>,
          pipe_stubs        |->
              IF lhs
              THEN << Stub(l_stub_a, pipe_y_in, pipe_r), Stub(l_stub_b, pipe_y_in, pipe_r),
                      Stub(l_stub_a, pipe_y_out, pipe_r), Stub(l_stub_b, pipe_y_out, pipe_r) >>
              ELSE <<>>,
          bend_arcs         |-> BendArcs(p, margin, CW),
          return_rect       |-> <<CW, margin, return_ext, CD>>,
          top_right_box     |-> <<CW, Zero, p.top_right_step, margin>>,
          pipe_ext          |-> pipe_ext,
          return_ext        |-> return_ext,
          margin            |-> margin,
          total_width       |-> FAdd(FAdd(pipe_ext, CW), return_ext),
          header_block_len  |-> header_block_len,
          pipe_gap          |-> pipe_gap,
          top_right_step    |-> p.top_right_step,
          params            |-> p ])

\* ------------------------------------------------------------------------
\*  Number formatting (the f-strings of the dimension labels)
\* ------------------------------------------------------------------------

Digits == << "0", "1", "2", "3", "4", "5", "6", "7", "8", "9" >>

RECURSIVE NatStr(_)
\* str(n) for an int n >= 0
NatStr(n) == IF n < 10 THEN Digits[n + 1]
             ELSE NatStr(n \div 10) \o Digits[(n % 10) + 1]

\* str(n), f"{n}" for an int n
IntStr(n) == IF n < 0 THEN "-" \o NatStr(-n) ELSE NatStr(n)

\* |x| * 10^d rounded to an integer, ties to even: the digits that
\* f"{x:.<d>f}" prints (the conversion is from the exact binary value)
ScaledDigits(x, d) ==
    LET a == Abs(x[1]) * 10^d
    IN  IF x[2] >= 0 THEN a * 2^x[2]
        ELSE IF -x[2] > 30 THEN 0
        ELSE LET den  == 2^(-x[2])
                 q    == a \div den
                 r    == a % den
                 half == den \div 2
             IN  IF r > half \/ (r = half /\ q % 2 = 1) THEN q + 1 ELSE q

\* f"{x:.0f}" for d = 0 and f"{x:.1f}" for d = 1; a negative x keeps its
\* sign even when every printed digit is 0
FormatF(x, d) ==
    LET n == ScaledDigits(x, d)
    IN  (IF x[1] < 0 THEN "-" ELSE "")
          \o (IF d = 0 THEN NatStr(n)
              ELSE NatStr(n \div 10) \o "." \o Digits[(n % 10) + 1])

\* ------------------------------------------------------------------------
\*  math.radians, math.cos, math.sin
\*
\*  The library functions return the float next to the true value.  They
\*  are computed here in fixed point, in units of 2^-20: the argument is
\*  reduced by multiples of pi/2, the sine and the cosine of the remainder
\*  are summed from their series, and the result is rounded to a float.
\*  The result is within one unit in the last place of the true value.
\* ------------------------------------------------------------------------

\* math.radians(x): x * (pi / 180)
Radians(x) == FMul(x, Round(9370166, -29))

\* |x| in units of 2^-20, for |x| < 2^10
Fx20(x) ==
    LET m == Abs(x[1])
    IN  IF x[2] >= -20 THEN m * 2^(x[2] + 20)
        ELSE IF x[2] < -50 THEN 0
        ELSE m \div 2^(-x[2] - 20)

\* a * a for a in units of 2^-20, 0 <= a < 2^20
Sq20(a) ==
    LET h == a \div 32
        l == a % 32
    IN  (h * h + (2 * h * l) \div 32) \div 1024

\* sin(a) for 0 <= a <= pi/4: a - a^3/6 + a^5/120 - a^7/5040
SinFx(a) ==
    LET t   == Sq20(a) \div 32
        t2  == (t * t) \div 32768
        P19 == 87381 - (t * 4369) \div 32768 + (t2 * 104) \div 32768
        u   == ((a \div 32) * t) \div 32768
    IN  a - (u * P19) \div 16384

\* cos(a) for 0 <= a <= pi/4: 1 - a^2/2 + a^4/24 - a^6/720 + a^8/40320
CosFx(a) ==
    LET r2  == Sq20(a)
        t   == r2 \div 32
        tl  == r2 % 32
        t2  == (t * t) \div 32768
        Q17 == 65536 - (t * 5461) \div 32768 + (t2 * 182) \div 32768
                 - (((t2 * t) \div 32768) * 3) \div 32768
    IN  1048576 - ((t * Q17) \div 4096 + (tl * Q17) \div 131072)

\* |x| = k * pi/2 + r with |r| <= pi/4: the quadrant k mod 4 and r
Reduce(x) ==
    LET f == Fx20(x)
        k == (f + 823549) \div 1647099
    IN  [q |-> k % 4, r |-> f - k * 1647099 - k \div 3]

\* math.cos(x)
Cos(x) ==
    LET q == Reduce(x).q
        r == Reduce(x).r
        a == Abs(r)
        v == IF q = 0 THEN CosFx(a)
             ELSE IF q = 1 THEN -Sgn(r) * SinFx(a)
             ELSE IF q = 2 THEN -CosFx(a)
             ELSE Sgn(r) * SinFx(a)
    IN  Round(v, -20)

\* math.sin(x)
Sin(x) ==
    LET q == Reduce(x).q
        r == Reduce(x).r
        a == Abs(r)
        v == IF q = 0 THEN Sgn(r) * SinFx(a)
             ELSE IF q = 1 THEN CosFx(a)
             ELSE IF q = 2 THEN -Sgn(r) * SinFx(a)
             ELSE -CosFx(a)
    IN  Round(Sgn(x[1]) * v, -20)

\* ------------------------------------------------------------------------
\*  core/dimension_engine.py
\* ------------------------------------------------------------------------

ARROW_LEN == FromInt(3)

EXT_GAP == FromInt(2)

EXT_OVER == FromInt(3)

ARROW_ANGLE == FromInt(25)

\* one leg of the arrowhead, s = 1 or -1
ArrowLeg(tx, ty, a, ha, s) ==
    LET dx == FMul(FNeg(ARROW_LEN), Cos(FAdd(a, FMul(FromInt(s), ha))))
        dy == FMul(FNeg(ARROW_LEN), Sin(FAdd(a, FMul(FromInt(s), ha))))
    IN  << tx, ty, FAdd(tx, dx), FAdd(ty, dy) >>

\* arrowhead_lines with both legs on the same side of the direction
arrowhead_lines_one_sided(tx, ty, a_deg) ==
    LET a  == Radians(a_deg)
        ha == Radians(ARROW_ANGLE)
    IN  << ArrowLeg(tx, ty, a, ha, 1), ArrowLeg(tx, ty, a, ha, 1) >>

\* arrowhead_lines(tx, ty, a_deg)
arrowhead_lines(tx, ty, a_deg) ==
    LET a  == Radians(a_deg)
        ha == Radians(ARROW_ANGLE)
    IN  << ArrowLeg(tx, ty, a, ha, 1), ArrowLeg(tx, ty, a, ha, -1) >>

\* the text argument of _hdim and _vdim: None, or an override string
NoText == <<>>

Text(s) == <<s>>

\* _hdim with the default label taken from the signed difference
hdim_signed_label(p1, p2, offset, text, above) ==
    LET label == IF text = NoText
                 THEN FormatF(FSub(p2[1], p1[1]), 1)
                 ELSE text[1]
        sign  == FromInt(IF above THEN 1 ELSE -1)
        dy    == FMul(sign, FAbs(offset))
        dim_y == FAdd(p1[2], dy)
    IN  [ lines  |-> << << p1[1], FAdd(p1[2], FMul(sign, EXT_GAP)),
                           p1[1], FAdd(dim_y, FMul(sign, EXT_OVER)) >>,
                        << p2[1], FAdd(p2[2], FMul(sign, EXT_GAP)),
                           p2[1], FAdd(dim_y, FMul(sign, EXT_OVER)) >>,
                        << p1[1], dim_y, p2[1], dim_y >> >>,
          arrows |-> << << p1[1], dim_y, Zero >>,
                        << p2[1], dim_y, FromInt(180) >> >>,
          texts  |-> << << FDiv(FAdd(p1[1], p2[1]), Two), dim_y, label, Zero >> >> ]

\* _hdim with the offset's own sign kept
hdim_signed_offset(p1, p2, offset, text, above) ==
    LET label == IF text = NoText
                 THEN FormatF(FAbs(FSub(p2[1], p1[1])), 1)
                 ELSE text[1]
        sign  == FromInt(IF above THEN 1 ELSE -1)
        dy    == FMul(sign, offset)
        dim_y == FAdd(p1[2], dy)
    IN  [ lines  |-> << << p1[1], FAdd(p1[2], FMul(sign, EXT_GAP)),
                           p1[1], FAdd(dim_y, FMul(sign, EXT_OVER)) >>,
                        << p2[1], FAdd(p2[2], FMul(sign, EXT_GAP)),
                           p2[1], FAdd(dim_y, FMul(sign, EXT_OVER)) >>,
                        << p1[1], dim_y, p2[1], dim_y >> >>,
          arrows |-> << << p1[1], dim_y, Zero >>,
                        << p2[1], dim_y, FromInt(180) >> >>,
          texts  |-> << << FDiv(FAdd(p1[1], p2[1]), Two), dim_y, label, Zero >> >> ]

\* _hdim(p1, p2, offset, text, above): a horizontal dimension
hdim(p1, p2, offset, text, above) ==
    LET label == IF text = NoText
                 THEN FormatF(FAbs(FSub(p2[1], p1[1])), 1)
                 ELSE text[1]
        sign  == FromInt(IF above THEN 1 ELSE -1)
        dy    == FMul(sign, FAbs(offset))
        dim_y == FAdd(p1[2], dy)
    IN  [ lines  |-> << << p1[1], FAdd(p1[2], FMul(sign, EXT_GAP)),
                           p1[1], FAdd(dim_y, FMul(sign, EXT_OVER)) >>,
                        << p2[1], FAdd(p2[2], FMul(sign, EXT_GAP)),
                           p2[1], FAdd(dim_y, FMul(sign, EXT_OVER)) >>,
                        << p1[1], dim_y, p2[1], dim_y >> >>,
          arrows |-> << << p1[1], dim_y, Zero >>,
                        << p2[1], dim_y, FromInt(180) >> >>,
          texts  |-> << << FDiv(FAdd(p1[1], p2[1]), Two), dim_y, label, Zero >> >> ]

\* _vdim with the extension lines ending on the dimension line
vdim_without_overrun(p1, p2, offset, text, right) ==
    LET label == IF text = NoText
                 THEN FormatF(FAbs(FSub(p2[2], p1[2])), 1)
                 ELSE text[1]
        sign  == FromInt(IF right THEN 1 ELSE -1)
        dx    == FMul(sign, FAbs(offset))
        dim_x == FAdd(p1[1], dx)
    IN  [ lines  |-> << << FAdd(p1[1], FMul(sign, EXT_GAP)), p1[2],
                           dim_x, p1[2] >>,
                        << FAdd(p2[1], FMul(sign, EXT_GAP)), p2[2],
                           dim_x, p2[2] >>,
                        << dim_x, p1[2], dim_x, p2[2] >> >>,
          arrows |-> << << dim_x, p1[2], FromInt(90) >>,
                        << dim_x, p2[2], FromInt(270) >> >>,
          texts  |-> << << dim_x, FDiv(FAdd(p1[2], p2[2]), Two), label,
                           FromInt(90) >> >> ]

\* _vdim(p1, p2, offset, text, right): a vertical dimension
vdim(p1, p2, offset, text, right) ==
    LET label == IF text = NoText
                 THEN FormatF(FAbs(FSub(p2[2], p1[2])), 1)
                 ELSE text[1]
        sign  == FromInt(IF right THEN 1 ELSE -1)
        dx    == FMul(sign, FAbs(offset))
        dim_x == FAdd(p1[1], dx)
    IN  [ lines  |-> << << FAdd(p1[1], FMul(sign, EXT_GAP)), p1[2],
                           FAdd(dim_x, FMul(sign, EXT_OVER)), p1[2] >>,
                        << FAdd(p2[1], FMul(sign, EXT_GAP)), p2[2],
                           FAdd(dim_x, FMul(sign, EXT_OVER)), p2[2] >>,
                        << dim_x, p1[2], dim_x, p2[2] >> >>,
          arrows |-> << << dim_x, p1[2], FromInt(90) >>,
                        << dim_x, p2[2], FromInt(270) >> >>,
          texts  |-> << << dim_x, FDiv(FAdd(p1[2], p2[2]), Two), label,
                           FromInt(90) >> >> ]

\* geo.get(key, default)
Get(geo, key, default) == IF key \in DOMAIN geo THEN geo[key] ELSE default

\* p = geo.get("params"); if not p: the record carries no parameter record
NoParams(geo) == "params" \notin DOMAIN geo

\* generate_front_dimensions without its last append, the FPI label
generate_front_dimensions_without_label(geo) ==
    IF NoParams(geo) THEN <<>>
    ELSE
    LET p  == geo.params
        ox == geo.outer_rect[1]
        oy == geo.outer_rect[2]
        ow == geo.outer_rect[3]
        oh == geo.outer_rect[4]
        fx == geo.fin_rect[1]
        fy == geo.fin_rect[2]
        fw == geo.fin_rect[3]
        fh == geo.fin_rect[4]
        right == FAdd(ox, ow)
        ref   == FAdd(p.bottom_plate, p.front_left_reference_extra)
    IN  << hdim(<<fx, oy>>, <<FAdd(fx, fw), oy>>, FromInt(25),
                Text(FormatF(fw, 0) \o " (FL)"), FALSE),
           hdim(<<ox, oy>>, <<right, oy>>, FromInt(40),
                Text(FormatF(ow, 0)), FALSE),
           hdim(<<ox, oy>>, <<fx, oy>>, FromInt(12),
                Text(FormatF(p.casing_left, 0)), FALSE),
           hdim(<<FAdd(fx, fw), oy>>, <<right, oy>>, FromInt(12),
                Text(FormatF(p.casing_right, 0)), FALSE),
           vdim(<<right, fy>>, <<right, FAdd(fy, fh)>>, FromInt(25),
                Text(FormatF(fh, 0) \o " (FH)"), TRUE),
           vdim(<<right, oy>>, <<right, FAdd(oy, oh)>>, FromInt(40),
                Text(FormatF(oh, 0)), TRUE),
           vdim(<<right, oy>>, <<right, fy>>, FromInt(12),
                Text(FormatF(p.casing_bottom, 0)), TRUE),
           vdim(<<right, FAdd(fy, fh)>>, <<right, FAdd(oy, oh)>>, FromInt(12),
                Text(FormatF(p.casing_top, 0)), TRUE),
           vdim(<<ox, fy>>,
                <<ox, FAdd(FAdd(fy, p.bottom_plate), p.front_left_reference_extra)>>,
                FromInt(15), Text(FormatF(ref, 0)), FALSE) >>

\* generate_front_dimensions(geo)
generate_front_dimensions(geo) ==
    IF NoParams(geo) THEN <<>>
    ELSE
    LET p  == geo.params
        ox == geo.outer_rect[1]
        oy == geo.outer_rect[2]
        ow == geo.outer_rect[3]
        oh == geo.outer_rect[4]
        fx == geo.fin_rect[1]
        fy == geo.fin_rect[2]
        fw == geo.fin_rect[3]
        fh == geo.fin_rect[4]
        right == FAdd(ox, ow)
        ref   == FAdd(p.bottom_plate, p.front_left_reference_extra)
    IN  << hdim(<<fx, oy>>, <<FAdd(fx, fw), oy>>, FromInt(25),
                Text(FormatF(fw, 0) \o " (FL)"), FALSE),
           hdim(<<ox, oy>>, <<right, oy>>, FromInt(40),
                Text(FormatF(ow, 0)), FALSE),
           hdim(<<ox, oy>>, <<fx, oy>>, FromInt(12),
                Text(FormatF(p.casing_left, 0)), FALSE),
           hdim(<<FAdd(fx, fw), oy>>, <<right, oy>>, FromInt(12),
                Text(FormatF(p.casing_right, 0)), FALSE),
           vdim(<<right, fy>>, <<right, FAdd(fy, fh)>>, FromInt(25),
                Text(FormatF(fh, 0) \o " (FH)"), TRUE),
           vdim(<<right, oy>>, <<right, FAdd(oy, oh)>>, FromInt(40),
                Text(FormatF(oh, 0)), TRUE),
           vdim(<<right, oy>>, <<right, fy>>, FromInt(12),
                Text(FormatF(p.casing_bottom, 0)), TRUE),
           vdim(<<right, FAdd(fy, fh)>>, <<right, FAdd(oy, oh)>>, FromInt(12),
                Text(FormatF(p.casing_top, 0)), TRUE),
           vdim(<<ox, fy>>,
                <<ox, FAdd(FAdd(fy, p.bottom_plate), p.front_left_reference_extra)>>,
                FromInt(15), Text(FormatF(ref, 0)), FALSE),
           [ lines  |-> <<>>,
             arrows |-> <<>>,
             texts  |-> << << FAdd(fx, FDiv(fw, Two)), FAdd(fy, FDiv(fh, Two)),
                              IntStr(p.fpi) \o " FPI", Zero >> >> ] >>

\* the body shared by generate_header_dimensions and
\* generate_return_dimensions
SideDimensions(geo) ==
    IF NoParams(geo) THEN <<>>
    ELSE
    LET p  == geo.params
        ox == geo.outer_rect[1]
        oy == geo.outer_rect[2]
        ow == geo.outer_rect[3]
        oh == geo.outer_rect[4]
        inner == Get(geo, "inner_rect", <<ox, oy, Zero, Zero>>)
        ix == inner[1]
        iy == inner[2]
        iw == inner[3]
        ih == inner[4]
        right == FAdd(ox, ow)
    IN  << hdim(<<ox, oy>>, <<right, oy>>, FromInt(25),
                Text(FormatF(ow, 0)), FALSE),
           vdim(<<right, oy>>, <<right, FAdd(oy, oh)>>, FromInt(35),
                Text(FormatF(oh, 1)), TRUE),
           vdim(<<right, oy>>, <<right, iy>>, FromInt(12),
                Text(FormatF(p.bottom_plate, 0)), TRUE),
           vdim(<<right, FAdd(iy, ih)>>, <<right, FAdd(oy, oh)>>, FromInt(12),
                Text(FormatF(p.top_plate, 0)), TRUE),
           hdim(<<ix, oy>>, <<FAdd(ix, iw), oy>>, FromInt(40),
                Text(FormatF(iw, 1)), FALSE),
           vdim(<<ox, iy>>, <<ox, FAdd(iy, ih)>>, FromInt(20),
                Text(FormatF(ih, 1)), FALSE) >>

\* generate_header_dimensions(geo)
generate_header_dimensions(geo) == SideDimensions(geo)

\* generate_return_dimensions(geo)
generate_return_dimensions(geo) == SideDimensions(geo)

\* generate_top_dimensions with the pipe-gap dimension on the side of the
\* pipes
generate_top_dimensions_on_connection_side(geo) ==
    IF NoParams(geo) THEN <<>>
    ELSE
    LET p  == geo.params
        ox == geo.outer_rect[1]
        oy == geo.outer_rect[2]
        ow == geo.outer_rect[3]
        oh == geo.outer_rect[4]
        fx == geo.fin_rect[1]
        fy == geo.fin_rect[2]
        fw == geo.fin_rect[3]
        fh == geo.fin_rect[4]
        pipe_ext   == Get(geo, "pipe_ext", p.connection_extension)
        return_ext == Get(geo, "return_ext", p.top_return_extension)
        margin     == Get(geo, "margin", Dec(562, 1))
        total_w    == Get(geo, "total_width", FAdd(FAdd(ow, pipe_ext), return_ext))
        header_block_len == Get(geo, "header_block_len", p.top_header_block_length)
        pipe_gap   == Get(geo, "pipe_gap", p.connection_vertical_gap)
        top_right_step == Get(geo, "top_right_step", p.top_right_step)
        btm        == FAdd(oy, oh)
        right      == FAdd(ox, ow)
        far        == FAdd(FAdd(ox, ow), return_ext)
        tip        == FNeg(pipe_ext)
        block      == FAdd(ox, header_block_len)
        y_centre   == FDiv(oh, Two)
        pipe_y_in  == FSub(y_centre, FDiv(pipe_gap, Two))
        pipe_y_out == FAdd(y_centre, FDiv(pipe_gap, Two))
        gap_x      == IF p.connection_side = "RHS"
                      THEN FAdd(FAdd(right, pipe_ext), FromInt(5))
                      ELSE FSub(FNeg(pipe_ext), FromInt(5))
    IN  << hdim(<<ox, btm>>, <<fx, btm>>, FromInt(12),
                Text(FormatF(p.casing_left, 0)), FALSE),
           hdim(<<fx, btm>>, <<FAdd(fx, fw), btm>>, FromInt(25),
                Text(FormatF(fw, 0) \o " (FL)"), FALSE),
           hdim(<<FAdd(fx, fw), btm>>, <<right, btm>>, FromInt(12),
                Text(FormatF(p.casing_right, 0)), FALSE),
           hdim(<<ox, btm>>, <<right, btm>>, FromInt(40),
                Text(FormatF(ow, 0)), FALSE),
           hdim(<<tip, btm>>, <<ox, btm>>, FromInt(55),
                Text(FormatF(pipe_ext, 0)), FALSE),
           hdim(<<ox, btm>>, <<far, btm>>, FromInt(70),
                Text(FormatF(FAdd(ow, return_ext), 0)), FALSE),
           hdim(<<tip, btm>>, <<far, btm>>, FromInt(85),
                Text(FormatF(total_w, 0)), FALSE),
           hdim(<<tip, oy>>, <<block, oy>>, FromInt(-15),
                Text(FormatF(FAdd(pipe_ext, header_block_len), 0)), TRUE),
           hdim(<<tip, oy>>, <<ox, oy>>, FromInt(-28),
                Text(FormatF(pipe_ext, 0)), TRUE),
           hdim(<<ox, oy>>, <<block, oy>>, FromInt(-28),
                Text(FormatF(header_block_len, 0)), TRUE),
           vdim(<<block, fy>>, <<block, FAdd(fy, fh)>>, FromInt(15),
                Text(FormatF(p.coil_depth, 1)), FALSE),
           vdim(<<gap_x, pipe_y_in>>, <<gap_x, pipe_y_out>>, FromInt(10),
                Text(FormatF(pipe_gap, 0)), FALSE),
           vdim(<<far, oy>>, <<far, FAdd(oy, oh)>>, FromInt(25),
                Text(FormatF(oh, 0)), TRUE),
           vdim(<<right, oy>>, <<right, fy>>, FromInt(12),
                Text(FormatF(margin, 1)), TRUE),
           vdim(<<right, FAdd(fy, fh)>>, <<right, FAdd(oy, oh)>>, FromInt(12),
                Text(FormatF(margin, 1)), TRUE),
           vdim(<<far, oy>>, <<far, FAdd(oy, top_right_step)>>, FromInt(12),
                Text(FormatF(top_right_step, 0)), TRUE) >>

\* generate_top_dimensions(geo)
generate_top_dimensions(geo) ==
    IF NoParams(geo) THEN <<>>
    ELSE
    LET p  == geo.params
        ox == geo.outer_rect[1]
        oy == geo.outer_rect[2]
        ow == geo.outer_rect[3]
        oh == geo.outer_rect[4]
        fx == geo.fin_rect[1]
        fy == geo.fin_rect[2]
        fw == geo.fin_rect[3]
        fh == geo.fin_rect[4]
        pipe_ext   == Get(geo, "pipe_ext", p.connection_extension)
        return_ext == Get(geo, "return_ext", p.top_return_extension)
        margin     == Get(geo, "margin", Dec(562, 1))
        total_w    == Get(geo, "total_width", FAdd(FAdd(ow, pipe_ext), return_ext))
        header_block_len == Get(geo, "header_block_len", p.top_header_block_length)
        pipe_gap   == Get(geo, "pipe_gap", p.connection_vertical_gap)
        top_right_step == Get(geo, "top_right_step", p.top_right_step)
        btm        == FAdd(oy, oh)
        right      == FAdd(ox, ow)
        far        == FAdd(FAdd(ox, ow), return_ext)
        tip        == FNeg(pipe_ext)
        block      == FAdd(ox, header_block_len)
        y_centre   == FDiv(oh, Two)
        pipe_y_in  == FSub(y_centre, FDiv(pipe_gap, Two))
        pipe_y_out == FAdd(y_centre, FDiv(pipe_gap, Two))
        gap_x      == FSub(FNeg(pipe_ext), FromInt(5))
    IN  << hdim(<<ox, btm>>, <<fx, btm>>, FromInt(12),
                Text(FormatF(p.casing_left, 0)), FALSE),
           hdim(<<fx, btm>>, <<FAdd(fx, fw), btm>>, FromInt(25),
                Text(FormatF(fw, 0) \o " (FL)"), FALSE),
           hdim(<<FAdd(fx, fw), btm>>, <<right, btm>>, FromInt(12),
                Text(FormatF(p.casing_right, 0)), FALSE),
           hdim(<<ox, btm>>, <<right, btm>>, FromInt(40),
                Text(FormatF(ow, 0)), FALSE),
           hdim(<<tip, btm>>, <<ox, btm>>, FromInt(55),
                Text(FormatF(pipe_ext, 0)), FALSE),
           hdim(<<ox, btm>>, <<far, btm>>, FromInt(70),
                Text(FormatF(FAdd(ow, return_ext), 0)), FALSE),
           hdim(<<tip, btm>>, <<far, btm>>, FromInt(85),
                Text(FormatF(total_w, 0)), FALSE),
           hdim(<<tip, oy>>, <<block, oy>>, FromInt(-15),
                Text(FormatF(FAdd(pipe_ext, header_block_len), 0)), TRUE),
           hdim(<<tip, oy>>, <<ox, oy>>, FromInt(-28),
                Text(FormatF(pipe_ext, 0)), TRUE),
           hdim(<<ox, oy>>, <<block, oy>>, FromInt(-28),
                Text(FormatF(header_block_len, 0)), TRUE),
           vdim(<<block, fy>>, <<block, FAdd(fy, fh)>>, FromInt(15),
                Text(FormatF(p.coil_depth, 1)), FALSE),
           vdim(<<gap_x, pipe_y_in>>, <<gap_x, pipe_y_out>>, FromInt(10),
                Text(FormatF(pipe_gap, 0)), FALSE),
           vdim(<<far, oy>>, <<far, FAdd(oy, oh)>>, FromInt(25),
                Text(FormatF(oh, 0)), TRUE),
           vdim(<<right, oy>>, <<right, fy>>, FromInt(12),
                Text(FormatF(margin, 1)), TRUE),
           vdim(<<right, FAdd(fy, fh)>>, <<right, FAdd(oy, oh)>>, FromInt(12),
                Text(FormatF(margin, 1)), TRUE),
           vdim(<<far, oy>>, <<far, FAdd(oy, top_right_step)>>, FromInt(12),
                Text(FormatF(top_right_step, 0)), TRUE) >>

\* ------------------------------------------------------------------------
\*  Notes and title block (core/geometry_engine.py, core/parameters.py)
\* ------------------------------------------------------------------------

\* the number of decimal places repr(x) prints: the fewest with which the
\* printed decimal reads back as x (values of at most four places, the
\* range of the thickness fields)
ReprPlaces(x) ==
    IF \E k \in 0..4 : Dec(ScaledDigits(x, k), k) = FAbs(x)
    THEN CHOOSE k \in 0..4 :
           /\ Dec(ScaledDigits(x, k), k) = FAbs(x)
           /\ \A j \in 0..(k - 1) : Dec(ScaledDigits(x, j), j) # FAbs(x)
    ELSE 4

RECURSIVE Pad(_, _)
\* the digit string s padded on the left with zeros to k characters, for
\* s the decimal form of n
Pad(n, k) == IF k <= 0 THEN ""
             ELSE Pad(n \div 10, k - 1) \o Digits[(n % 10) + 1]

\* repr(x), f"{x}" for a float x in positional notation
Repr(x) ==
    LET k == ReprPlaces(x)
        n == ScaledDigits(x, k)
    IN  (IF x[1] < 0 THEN "-" ELSE "")
          \o NatStr(n \div 10^k) \o "."
          \o (IF k = 0 THEN "0" ELSE Pad(n % 10^k, k))

\* str.upper() of the fin materials on offer
Upper(s) ==
    IF s = "Plain Aluminium" THEN "PLAIN ALUMINIUM"
    ELSE IF s = "Copper" THEN "COPPER"
    ELSE s

\* CoilParameters.drawing_title
drawing_title(p) ==
    p.tube_od_inch \o "\"x" \o FormatF(p.fin_length, 0) \o "FL"
        \o "x" \o FormatF(p.fin_height, 0) \o "FH"
        \o "x" \o IntStr(p.no_of_rows) \o "R"
        \o "x" \o IntStr(p.tubes_per_row) \o "TPR"
        \o "x" \o IntStr(p.fpi) \o "FPI"
        \o "x" \o IntStr(p.no_of_circuits) \o "NC"
        \o " - " \o p.connection_side

\* generate_notes(params)
generate_notes(p) ==
    [ notes_lines |->
        << "NOTE:",
           "1. FIN MATERIAL SHOULD BE " \o Upper(p.fin_material) \o " ("
               \o Repr(p.fin_thickness)
               \o "MM THICKNESS) & WITHOUT ANY COATING.",
           "2. CASING MATERIAL SHOULD BE G.I. - "
               \o Repr(p.casing_thickness) \o "MM THICKNESS.",
           "3. " \o p.tube_od_inch
               \o "\" COPPER TUBE WALL THICKNESS SHOULD BE "
               \o Repr(p.tube_wall_thickness) \o " MM." >>,
      footer_lines |->
        << "ALL DIMENSIONS ARE IN MM,",
           "UNLESS OTHERWISE SPECIFIED.",
           "GENERAL TOLERANCE : +-2MM",
           "THIRD ANGLE PROJECTION" >> ]

\* generate_title_block(params)
generate_title_block(p) ==
    [ company_name  |-> "alpine coils",
      company_sub   |-> "industry l.l.c",
      company_tag   |-> "air cooling experts",
      drawing_title |-> drawing_title(p),
      scale         |-> "NTS",
      qty           |-> "1 NO." ]

\* ------------------------------------------------------------------------
\*  core/layout_engine.py
\* ------------------------------------------------------------------------

VIEW_GAP == FromInt(80)

\* max(a, b, c) of three floats: the first of the largest
FMax3(a, b, c) ==
    LET ab == IF FLt(a, b) THEN b ELSE a
    IN  IF FLt(ab, c) THEN c ELSE ab

ViewDescriptor(label, offset_x, offset_y, geometry, dimensions) ==
    [ label |-> label, offset_x |-> offset_x, offset_y |-> offset_y,
      geometry |-> geometry, dimensions |-> dimensions ]

\* the layout with the plan view aligned to the header-side view
Layout_top_over_header(front_geo, header_geo, return_geo, top_geo, notes_data, tb_data) ==
    LET front_w  == front_geo.outer_rect[3]
        front_h  == front_geo.outer_rect[4]
        header_w == header_geo.outer_rect[3]
        header_h == header_geo.outer_rect[4]
        return_h == return_geo.outer_rect[4]
        top_h    == top_geo.outer_rect[4]
        bottom_y == FAdd(top_h, VIEW_GAP)
        header_x == Zero
        front_x  == FAdd(header_w, VIEW_GAP)
        return_x == FAdd(FAdd(front_x, front_w), VIEW_GAP)
        top_x    == header_x
        top_y    == Zero
        notes_y  == FAdd(FAdd(bottom_y, FMax3(front_h, header_h, return_h)),
                         FDiv(VIEW_GAP, Two))
    IN  [ views |->
            << ViewDescriptor("TOP", top_x, top_y, top_geo,
                              generate_top_dimensions(top_geo)),
               ViewDescriptor("HEADER SIDE", header_x, bottom_y, header_geo,
                              generate_header_dimensions(header_geo)),
               ViewDescriptor("FRONT", front_x, bottom_y, front_geo,
                              generate_front_dimensions(front_geo)),
               ViewDescriptor("RETURN END SIDE", return_x, bottom_y, return_geo,
                              generate_return_dimensions(return_geo)) >>,
          notes              |-> notes_data,
          title_block        |-> tb_data,
          notes_offset       |-> <<header_x, notes_y>>,
          title_block_offset |-> <<return_x, notes_y>> ]

\* the layout with the notes placed by the front view's height alone
Layout_notes_under_front(front_geo, header_geo, return_geo, top_geo, notes_data, tb_data) ==
    LET front_w  == front_geo.outer_rect[3]
        front_h  == front_geo.outer_rect[4]
        header_w == header_geo.outer_rect[3]
        header_h == header_geo.outer_rect[4]
        return_h == return_geo.outer_rect[4]
        top_h    == top_geo.outer_rect[4]
        bottom_y == FAdd(top_h, VIEW_GAP)
        header_x == Zero
        front_x  == FAdd(header_w, VIEW_GAP)
        return_x == FAdd(FAdd(front_x, front_w), VIEW_GAP)
        top_x    == front_x
        top_y    == Zero
        notes_y  == FAdd(FAdd(bottom_y, front_h),
                         FDiv(VIEW_GAP, Two))
    IN  [ views |->
            << ViewDescriptor("TOP", top_x, top_y, top_geo,
                              generate_top_dimensions(top_geo)),
               ViewDescriptor("HEADER SIDE", header_x, bottom_y, header_geo,
                              generate_header_dimensions(header_geo)),
               ViewDescriptor("FRONT", front_x, bottom_y, front_geo,
                              generate_front_dimensions(front_geo)),
               ViewDescriptor("RETURN END SIDE", return_x, bottom_y, return_geo,
                              generate_return_dimensions(return_geo)) >>,
          notes              |-> notes_data,
          title_block        |-> tb_data,
          notes_offset       |-> <<header_x, notes_y>>,
          title_block_offset |-> <<return_x, notes_y>> ]

\* generate_layout from line 60 on: the dimensions of the four geometry
\* records, the offsets, and the returned DrawingLayout
Layout(front_geo, header_geo, return_geo, top_geo, notes_data, tb_data) ==
    LET front_w  == front_geo.outer_rect[3]
        front_h  == front_geo.outer_rect[4]
        header_w == header_geo.outer_rect[3]
        header_h == header_geo.outer_rect[4]
        return_h == return_geo.outer_rect[4]
        top_h    == top_geo.outer_rect[4]
        bottom_y == FAdd(top_h, VIEW_GAP)
        header_x == Zero
        front_x  == FAdd(header_w, VIEW_GAP)
        return_x == FAdd(FAdd(front_x, front_w), VIEW_GAP)
        top_x    == front_x
        top_y    == Zero
        notes_y  == FAdd(FAdd(bottom_y, FMax3(front_h, header_h, return_h)),
                         FDiv(VIEW_GAP, Two))
    IN  [ views |->
            << ViewDescriptor("TOP", top_x, top_y, top_geo,
                              generate_top_dimensions(top_geo)),
               ViewDescriptor("HEADER SIDE", header_x, bottom_y, header_geo,
                              generate_header_dimensions(header_geo)),
               ViewDescriptor("FRONT", front_x, bottom_y, front_geo,
                              generate_front_dimensions(front_geo)),
               ViewDescriptor("RETURN END SIDE", return_x, bottom_y, return_geo,
                              generate_return_dimensions(return_geo)) >>,
          notes              |-> notes_data,
          title_block        |-> tb_data,
          notes_offset       |-> <<header_x, notes_y>>,
          title_block_offset |-> <<return_x, notes_y>> ]

\* generate_layout(params).  The first call, generate_front_geometry,
\* raises for fpi = 0 and nothing catches it.  Each geometry record is
\* computed once and bound, as the code binds it to a local.
generate_layout(p) ==
    IF generate_front_geometry(p).raised THEN generate_front_geometry(p)
    ELSE Returned(
        CHOOSE layout \in
            { Layout(front_geo, header_geo, return_geo, top_geo,
                     generate_notes(p), generate_title_block(p)) :
                front_geo  \in {generate_front_geometry(p).value},
                header_geo \in {generate_header_geometry(p).value},
                return_geo \in {generate_return_geometry(p).value},
                top_geo    \in {generate_top_geometry(p).value} } : TRUE)

\* ------------------------------------------------------------------------
\*  Inputs
\* ------------------------------------------------------------------------

\* largest no_of_rows of the grid inputs
MaxRows == 3

\* largest tubes_per_row of the grid inputs
MaxTubes == 8

\* largest top_plate and bottom_plate of the grid inputs
MaxPlate == 2

\* fin heights of the grid inputs
FinHeights == {3, 4, 31}

\* a small record that validate_parameters accepts
SmallParams ==
    [ DefaultParams EXCEPT
        !.fin_length = FromInt(20),  !.fin_height = FromInt(31),
        !.no_of_rows = 2,            !.tubes_per_row = 4,
        !.tube_od_inch = "1/4",      !.tube_diameter = Dec(635, 2),
        !.no_of_circuits = 4,
        !.top_plate = FromInt(1),    !.bottom_plate = FromInt(1),
        !.casing_left = FromInt(3),  !.casing_right = FromInt(5),
        !.casing_top = FromInt(2),   !.casing_bottom = FromInt(2),
        !.coil_depth = Dec(104, 1),  !.header_depth = FromInt(16),
        !.return_depth = FromInt(16),
        !.connection_extension = FromInt(12),
        !.connection_vertical_gap = FromInt(6),
        !.top_header_block_length = FromInt(9),
        !.top_return_extension = FromInt(7),
        !.top_right_step = FromInt(1),
        !.top_pipe_fitting_outer_offset = FromInt(4),
        !.top_pipe_fitting_inner_offset = FromInt(2),
        !.top_pipe_stub_center_offset = FromInt(4),
        !.top_pipe_stub_spacing = FromInt(1),
        !.front_left_reference_extra = FromInt(8) ]

\* the int-typed numeric fields of the record
IntFields == {"no_of_rows", "tubes_per_row", "fpi", "no_of_circuits"}

\* the float-typed fields of the record
FloatFields ==
    {PositiveNames[i] : i \in 1..Len(PositiveNames)}
        \cup {"top_plate", "bottom_plate", "return_depth",
              "fin_thickness", "tube_wall_thickness"}

NumericFields == IntFields \cup FloatFields

\* the record p with the numeric field f set to the integer k
SetField(p, f, k) ==
    [p EXCEPT ![f] = IF f \in IntFields THEN k ELSE FromInt(k)]

\* tube grids of every shape, plate offsets below, at and above the fin height
GridInputs ==
    { [ SmallParams EXCEPT
          !.fin_height = FromInt(fh), !.top_plate = FromInt(tp),
          !.bottom_plate = FromInt(bp), !.tubes_per_row = t, !.no_of_rows = r ] :
      fh \in FinHeights, tp \in 1..MaxPlate, bp \in 1..MaxPlate,
      t \in 0..MaxTubes, r \in 0..MaxRows }

\* one field zero or negative; two fields zero; every numeric field zero
BadInputs ==
    { SetField(SmallParams, f, k) : f \in NumericFields, k \in {0, -1} }
        \cup { SetField(SetField(SmallParams, f, 0), g, 0) :
               f \in NumericFields, g \in NumericFields }
        \cup { [ f \in DOMAIN SmallParams |->
                   IF f \in IntFields THEN 0
                   ELSE IF f \in FloatFields THEN Zero
                   ELSE SmallParams[f] ] }

\* connections on the right-hand side
SideInputs ==
    { [ SmallParams EXCEPT !.connection_side = "RHS", !.no_of_rows = r ] :
      r \in 0..MaxRows }

\* header and return depths that differ, and a return depth below zero
\* (validate_parameters does not test return_depth)
DepthInputs ==
    { [ SmallParams EXCEPT !.return_depth = FromInt(d), !.no_of_rows = r ] :
      d \in {-320, 24, 320}, r \in 1..MaxRows }
        \cup { [ DefaultParams EXCEPT !.return_depth = FromInt(-320) ] }

\* fin packs of fewer and of more than 40 fins, on a casing bottom of the
\* order of the fin spacing and on one so far from the origin that the
\* heights of neighbouring fins round to the same float
FinInputs ==
    { [ SmallParams EXCEPT !.casing_bottom = FromInt(cb),
                           !.fin_height = FromInt(fh), !.fpi = f ] :
      cb \in {2, 4096}, fh \in {34, 100}, f \in {13, 40} }

\* a coil pack deeper than the header and return plates: validate_parameters
\* compares no depth with another
DeepCoilInputs ==
    { [ SmallParams EXCEPT !.coil_depth = FromInt(24), !.no_of_rows = r ] :
      r \in 1..MaxRows }

\* header and return plates so much deeper than the coil pack that half a
\* row pitch is lost in the rounding of the grid's x coordinates
FarGridInputs ==
    { [ SmallParams EXCEPT !.header_depth = FromInt(2048),
                           !.return_depth = FromInt(2048),
                           !.coil_depth = FromInt(cd), !.no_of_rows = r ] :
      cd \in {1, 3}, r \in 1..MaxRows }

Inputs ==
    {DefaultParams} \cup GridInputs \cup BadInputs \cup SideInputs
        \cup FinInputs \cup DeepCoilInputs \cup FarGridInputs

\* records handed to generate_layout
LayoutInputs ==
    Inputs \cup DepthInputs

\* records the spin boxes of the parameter panel can hold: every field inside
\* its widget range, so the only rule of validate_parameters a panel record
\* can break is the plate rule (fin_height 100 under plates of 65 + 35 or
\* 500 + 35)
PanelInputs ==
    {DefaultParams} \cup
    { [ DefaultParams EXCEPT !.no_of_rows = r, !.tubes_per_row = 2,
                             !.fpi = 1, !.top_plate = FromInt(tp),
                             !.fin_height = FromInt(fh) ] :
      r \in {1, 2}, tp \in {65, 500}, fh \in {100, 1400} }

\* coordinates of the points handed to the dimension primitives
Coords == {Zero, Dec(15, 1), FromInt(-40), Dec(1001, 1)}

\* offsets handed to the dimension primitives: both signs of two magnitudes
Offsets == {FromInt(12), FromInt(-12), Dec(75, 1), FNeg(Dec(75, 1))}

\* label arguments: none, or an override
Texts == {NoText, Text("W")}

\* direction angles of arrows, in degrees
Angles == {FromInt(a) : a \in {0, 90, 180, 270, 45, -30}}

\* ------------------------------------------------------------------------
\*  State machine: a record, and the last operation applied to it
\* ------------------------------------------------------------------------

VARIABLES
    params,   \* the CoilParameters record the caller holds
    op,       \* the last operation called
    args,     \* the arguments of that call, for the dimension primitives
    result    \* what that call returned or raised

vars == <<params, op, args, result>>

Init ==
    /\ params \in Inputs
    /\ op = "none"
    /\ args = <<>>
    /\ result = Returned(<<>>)

\* errors = validate_parameters(params)
Validate ==
    LET r == validate_parameters(params)
    IN  /\ op = "none"
        /\ params' = r.params
        /\ op' = "validate"
        /\ result' = [raised |-> r.raised, exc |-> "", value |-> r.errors]
        /\ UNCHANGED args

\* reading the four derived properties of the record
Derived ==
    /\ op = "none"
    /\ op' = "derived"
    /\ result' = Returned([ casing_width   |-> casing_width(params),
                            casing_height  |-> casing_height(params),
                            vertical_pitch |-> vertical_pitch(params),
                            row_pitch      |-> row_pitch(params) ])
    /\ UNCHANGED <<params, args>>

\* geo = generate_front_geometry(params)
GenerateFront ==
    /\ op = "none"
    /\ op' = "front"
    /\ result' = generate_front_geometry(params)
    /\ UNCHANGED <<params, args>>

\* geo = generate_header_geometry(params)
GenerateHeader ==
    /\ op = "none"
    /\ op' = "header"
    /\ result' = generate_header_geometry(params)
    /\ UNCHANGED <<params, args>>

\* geo = generate_return_geometry(params)
GenerateReturn ==
    /\ op = "none"
    /\ op' = "return"
    /\ result' = generate_return_geometry(params)
    /\ UNCHANGED <<params, args>>

\* geo = generate_top_geometry(params)
GenerateTop ==
    /\ op = "none"
    /\ op' = "top"
    /\ result' = generate_top_geometry(params)
    /\ UNCHANGED <<params, args>>

\* the caller drops the returned value; the record is ready for the next call
Discard ==
    /\ op # "none"
    /\ op' = "none"
    /\ args' = <<>>
    /\ result' = Returned(<<>>)
    /\ UNCHANGED params

Next ==
    \/ Validate
    \/ Derived
    \/ GenerateFront
    \/ GenerateHeader
    \/ GenerateReturn
    \/ GenerateTop
    \/ Discard

Spec == Init /\ [][Next]_vars

\* ------------------------------------------------------------------------
\*  Second specification: the layout of the whole sheet
\* ------------------------------------------------------------------------

LayoutInit ==
    /\ params \in LayoutInputs
    /\ op = "none"
    /\ args = <<>>
    /\ result = Returned(<<>>)

\* layout = generate_layout(params)
GenerateLayout ==
    /\ op = "none"
    /\ op' = "layout"
    /\ result' = generate_layout(params)
    /\ UNCHANGED <<params, args>>

LayoutNext ==
    \/ GenerateLayout
    \/ Discard

LayoutSpec == LayoutInit /\ [][LayoutNext]_vars

\* ------------------------------------------------------------------------
\*  State machine of the dimension primitives: calls of _hdim, _vdim and
\*  arrowhead_lines on points, offsets, labels and angles of every kind
\* ------------------------------------------------------------------------

DimInit ==
    /\ params = DefaultParams
    /\ op = "none"
    /\ args = <<>>
    /\ result = Returned(<<>>)

\* result = _hdim(p1, p2, offset, text, above)
HDim ==
    \E x1 \in Coords, y1 \in Coords, x2 \in Coords, y2 \in Coords,
       offset \in Offsets, text \in Texts, above \in BOOLEAN :
        /\ op = "none"
        /\ op' = "hdim"
        /\ args' = [ p1 |-> <<x1, y1>>, p2 |-> <<x2, y2>>, offset |-> offset,
                     text |-> text, flag |-> above ]
        /\ result' = Returned(hdim(<<x1, y1>>, <<x2, y2>>, offset, text, above))
        /\ UNCHANGED params

\* result = _vdim(p1, p2, offset, text, right)
VDim ==
    \E x1 \in Coords, y1 \in Coords, x2 \in Coords, y2 \in Coords,
       offset \in Offsets, text \in Texts, right \in BOOLEAN :
        /\ op = "none"
        /\ op' = "vdim"
        /\ args' = [ p1 |-> <<x1, y1>>, p2 |-> <<x2, y2>>, offset |-> offset,
                     text |-> text, flag |-> right ]
        /\ result' = Returned(vdim(<<x1, y1>>, <<x2, y2>>, offset, text, right))
        /\ UNCHANGED params

\* result = arrowhead_lines(tx, ty, a_deg)
ArrowheadLines ==
    \E tx \in Coords, ty \in Coords, a_deg \in Angles :
        /\ op = "none"
        /\ op' = "arrow"
        /\ args' = [tx |-> tx, ty |-> ty, a_deg |-> a_deg]
        /\ result' = Returned(arrowhead_lines(tx, ty, a_deg))
        /\ UNCHANGED params

DimNext ==
    \/ HDim
    \/ VDim
    \/ ArrowheadLines
    \/ Discard

DimSpec == DimInit /\ [][DimNext]_vars

\* ------------------------------------------------------------------------
\*  Specification of the per-view dimension functions: each is called on the
\*  geometry record its view's generator returned for the record, and on
\*  that record without its "params" entry
\* ------------------------------------------------------------------------

\* geo without the key "params": geo.get("params") is None
WithoutParams(geo) == [k \in DOMAIN geo \ {"params"} |-> geo[k]]

\* the geometry records a dimension function is called on
GeometryArguments(generated) ==
    IF generated.raised THEN {}
    ELSE {generated.value, WithoutParams(generated.value)}

\* dims = generate_front_dimensions(geo)
FrontDimensions ==
    /\ op = "none"
    /\ op' = "front_dims"
    /\ \E geo \in GeometryArguments(generate_front_geometry(params)) :
           /\ args' = [geo |-> geo]
           /\ result' = Returned(generate_front_dimensions(geo))
    /\ UNCHANGED params

\* dims = generate_header_dimensions(geo)
HeaderDimensions ==
    /\ op = "none"
    /\ op' = "header_dims"
    /\ \E geo \in GeometryArguments(generate_header_geometry(params)) :
           /\ args' = [geo |-> geo]
           /\ result' = Returned(generate_header_dimensions(geo))
    /\ UNCHANGED params

\* dims = generate_return_dimensions(geo)
ReturnDimensions ==
    /\ op = "none"
    /\ op' = "return_dims"
    /\ \E geo \in GeometryArguments(generate_return_geometry(params)) :
           /\ args' = [geo |-> geo]
           /\ result' = Returned(generate_return_dimensions(geo))
    /\ UNCHANGED params

\* dims = generate_top_dimensions(geo)
TopDimensions ==
    /\ op = "none"
    /\ op' = "top_dims"
    /\ \E geo \in GeometryArguments(generate_top_geometry(params)) :
           /\ args' = [geo |-> geo]
           /\ result' = Returned(generate_top_dimensions(geo))
    /\ UNCHANGED params

ViewDimNext ==
    \/ FrontDimensions
    \/ HeaderDimensions
    \/ ReturnDimensions
    \/ TopDimensions
    \/ Discard

ViewDimSpec == Init /\ [][ViewDimNext]_vars

\* ------------------------------------------------------------------------
\*  Fourth specification: the application.  params is the record the panel's
\*  widgets hold, op the last request handled, args the arguments of the
\*  call of generate_layout that request made (<<>> when it made none) and
\*  result the canvas's _layout (Returned(<<>>) while it is None)
\* ------------------------------------------------------------------------

\* MainWindow._on_generate(p): the canvas's layout after the slot has run
on_generate(canvas, p) ==
    CHOOSE shown \in
        { IF layout.raised THEN canvas ELSE layout :
          layout \in {generate_layout(p)} } : TRUE

\* MainWindow.__init__ has built the panel, with the defaults of its
\* widgets, and the empty canvas, and is about to call _on_generate
AppInit ==
    /\ params = DefaultParams
    /\ op = "init"
    /\ args = <<>>
    /\ result = Returned(<<>>)

\* ParameterPanel._on_generate with nothing between the validation and
\* the signal
generate_requested_ungated ==
    IF op = "init" THEN {DefaultParams}
    ELSE {params}

\* the records MainWindow._on_generate is called with by the request at
\* hand: CoilParameters() by the last statement of __init__, and later the
\* panel's record by the signal generate_requested, which
\* ParameterPanel._on_generate emits unless validate_parameters returned
\* errors
generate_requested ==
    IF op = "init" THEN {DefaultParams}
    ELSE IF validate_parameters(params).errors # <<>> THEN {}
    ELSE {params}

\* the automatic generation at the end of __init__, and afterwards the
\* Generate button: ParameterPanel._on_generate and, inside its emit, the
\* slot MainWindow._on_generate
Generate ==
    /\ op' = IF op = "init" THEN "start" ELSE "generate"
    /\ IF generate_requested = {}
       THEN /\ args' = <<>>
            /\ UNCHANGED result
       ELSE \E p \in generate_requested :
                /\ args' = [params |-> p]
                /\ result' = on_generate(result, p)
    /\ UNCHANGED params

\* the user edits the spin boxes and combo boxes of the panel
EditFields ==
    /\ op # "init"
    /\ params' \in PanelInputs \ {params}
    /\ op' = "edit"
    /\ args' = <<>>
    /\ UNCHANGED result

\* MainWindow._on_export_dxf: reads the canvas's layout, writes a file
ExportDxf ==
    /\ op # "init"
    /\ op' = "export_dxf"
    /\ args' = <<>>
    /\ UNCHANGED <<params, result>>

\* MainWindow._on_export_pdf: reads the canvas's layout, writes a file
ExportPdf ==
    /\ op # "init"
    /\ op' = "export_pdf"
    /\ args' = <<>>
    /\ UNCHANGED <<params, result>>

AppNext ==
    \/ Generate
    \/ EditFields
    \/ ExportDxf
    \/ ExportPdf

AppSpec == AppInit /\ [][AppNext]_vars

\* ------------------------------------------------------------------------
\*  Exact comparison of floats (no rounding): used to state tolerances
\* ------------------------------------------------------------------------

\* x - y as an exact, unrounded pair
ExactSub(x, y) ==
    LET e == IF x[2] < y[2] THEN x[2] ELSE y[2]
    IN  <<x[1] * 2^(x[2] - e) - y[1] * 2^(y[2] - e), e>>

\* x + y as an exact, unrounded pair
ExactAdd(x, y) == ExactSub(x, FNeg(y))

\* x * 2^k
Scale(x, k) == <<x[1], x[2] + k>>

\* validate_parameters accepts the record
Valid(p) == validate_parameters(p).errors = <<>>

Range(seq) == {seq[i] : i \in 1..Len(seq)}

\* ------------------------------------------------------------------------
\*  Properties
\* ------------------------------------------------------------------------

\* the constraints validate_parameters tests that the record p violates
ViolatedConstraints(p) ==
    {n \in Range(PositiveNames) : FLe(p[n], Zero)}
        \cup {n \in Range(CountNames) : p[n] < 1}
        \cup (IF FGe(FAdd(p.top_plate, p.bottom_plate), p.fin_height)
              THEN {"plates"} ELSE {})

\* the message of a constraint
ConstraintMessage(c) ==
    IF c = "plates" THEN PlateMessage
    ELSE IF c \in Range(CountNames) THEN c \o " must be >= 1"
    ELSE c \o " must be positive"

\* C1: validate_parameters tests every constraint and returns exactly one
\* message per violated constraint: the list is as long as the number of
\* violated constraints, each violated constraint's message occurs once, and
\* the list is empty exactly when no constraint is violated.
C1_ValidateExhaustive ==
    op = "validate" =>
        LET errors == result.value
            broken == ViolatedConstraints(params)
        IN  /\ ~result.raised
            /\ Len(errors) = Cardinality(broken)
            /\ \A c \in broken :
                 Cardinality({i \in 1..Len(errors) :
                                errors[i] = ConstraintMessage(c)}) = 1
            /\ (errors = <<>>) <=> (broken = {})

\* a record violating several constraints has been validated
C1_Witness ==
    /\ op = "validate"
    /\ Len(result.value) >= 3
    /\ PlateMessage \in Range(result.value)

\* the physical dimension fields the invariant set names
PhysicalFields ==
    Range(PositiveNames) \cup {"return_depth", "top_plate", "bottom_plate"}

\* C2: validate_parameters returns an empty list only if every physical
\* dimension field (return_depth, top_plate and bottom_plate included) is
\* strictly positive, no_of_rows, tubes_per_row and fpi are >= 1, and
\* top_plate + bottom_plate < fin_height.
C2_WholeInvariantSet ==
    (op = "validate" /\ result.value = <<>>) =>
        /\ \A f \in PhysicalFields : FLt(Zero, params[f])
        /\ \A f \in Range(CountNames) : params[f] >= 1
        /\ FLt(FAdd(params.top_plate, params.bottom_plate), params.fin_height)

\* C3: the messages name the offending field: no_of_rows < 1 yields
\* "no_of_rows must be >= 1", casing_left <= 0 yields "casing_left must be
\* positive", top_plate + bottom_plate >= fin_height yields the plate
\* message, and the default record yields no message.
C3_MessagesNameField ==
    op = "validate" =>
        LET errors == Range(result.value)
        IN  /\ params.no_of_rows < 1 => "no_of_rows must be >= 1" \in errors
            /\ FLe(params.casing_left, Zero)
                 => "casing_left must be positive" \in errors
            /\ FGe(FAdd(params.top_plate, params.bottom_plate), params.fin_height)
                 => "Top plate + Bottom plate must be < Fin Height" \in errors
            /\ params = DefaultParams => result.value = <<>>

\* a record with no rows and no left casing has been validated
C3_Witness ==
    /\ op = "validate"
    /\ params.no_of_rows = 0
    /\ FLe(params.casing_left, Zero)
    /\ result.value = << "casing_left must be positive", "no_of_rows must be >= 1" >>

\* C4: a call of validate_parameters leaves every field of the record as it
\* was and raises nothing, for valid and invalid records alike.
C4_ValidateLeavesRecord ==
    [][op' = "validate" => (params' = params /\ ~result'.raised)]_vars

\* a record with a row count below 1 has been validated and still has it
C4_Witness ==
    /\ op = "validate"
    /\ params.no_of_rows < 1
    /\ result.value # <<>>

\* C5: the derived-quantity accessors and the four geometry generators
\* return a result for every record, valid or not: none of them raises.
C5_GenerationNeverRaises ==
    op \in {"derived", "front", "header", "return", "top"} => ~result.raised

\* C6: casing_width is casing_left + fin_length + casing_right, casing_height
\* is casing_bottom + fin_height + casing_top, and the front view's outer
\* rectangle is (0, 0, casing_width, casing_height).
C6_CasingBox ==
    LET w == FAdd(FAdd(params.casing_left, params.fin_length), params.casing_right)
        h == FAdd(FAdd(params.casing_bottom, params.fin_height), params.casing_top)
    IN  /\ op = "derived" =>
              /\ result.value.casing_width = w
              /\ result.value.casing_height = h
        /\ (op = "front" /\ ~result.raised) =>
              result.value.outer_rect = <<Zero, Zero, w, h>>

\* the front view of a record with all three width terms present
C6_Witness ==
    /\ op = "front"
    /\ ~result.raised
    /\ FLt(Zero, params.casing_right)
    /\ FLt(Zero, params.casing_left)
    /\ result.value.outer_rect[3] # Zero

\* vertical_pitch * (tubes_per_row - 1) + top_plate + bottom_plate, as the
\* expression evaluates
PitchSum(p, vp) ==
    FAdd(FAdd(FMul(vp, FromInt(p.tubes_per_row - 1)), p.top_plate), p.bottom_plate)

\* C7 as stated: for every valid record with tubes_per_row > 1,
\* vertical_pitch * (tubes_per_row - 1) + top_plate + bottom_plate equals
\* fin_height.
C7_PitchSumExact ==
    (op = "derived" /\ Valid(params) /\ params.tubes_per_row > 1) =>
        PitchSum(params, result.value.vertical_pitch) = params.fin_height

\* C7 amended: for every valid record with tubes_per_row > 1 the sum equals
\* fin_height within floating tolerance: the relative error is at most four
\* units of the significand's last place (far inside 1e-6 for 53 bits).
C7_PitchSumWithinTolerance ==
    (op = "derived" /\ Valid(params) /\ params.tubes_per_row > 1) =>
        LET sum == PitchSum(params, result.value.vertical_pitch)
            err == FAbs(ExactSub(sum, params.fin_height))
        IN  FLe(Scale(err, MantBits - 2), params.fin_height)

\* a valid record whose pitch sum is rounded away from fin_height
C7_Witness ==
    /\ op = "derived"
    /\ Valid(params)
    /\ params.tubes_per_row > 1
    /\ PitchSum(params, result.value.vertical_pitch) # params.fin_height

\* C8: vertical_pitch is (fin_height - top_plate - bottom_plate) /
\* (tubes_per_row - 1), and 0 when tubes_per_row <= 1; row_pitch is
\* coil_depth / no_of_rows, and 0 when no_of_rows <= 1.
C8_DerivedPitches ==
    op = "derived" =>
        /\ result.value.vertical_pitch =
             IF params.tubes_per_row <= 1 THEN Zero
             ELSE FDiv(FSub(FSub(params.fin_height, params.top_plate),
                            params.bottom_plate),
                       FromInt(params.tubes_per_row - 1))
        /\ result.value.row_pitch =
             IF params.no_of_rows <= 1 THEN Zero
             ELSE FDiv(params.coil_depth, FromInt(params.no_of_rows))

\* the pitches of a record with one row and several tubes per row
C8_Witness ==
    /\ op = "derived"
    /\ params.no_of_rows = 1
    /\ params.tubes_per_row > 1
    /\ result.value.row_pitch = Zero
    /\ result.value.vertical_pitch # Zero

\* C9: for every valid record the header-side and the return-end view each
\* hold exactly no_of_rows * tubes_per_row tube circles, each of radius
\* tube_diameter / 2.
C9_TubeCount ==
    (op \in {"header", "return"} /\ Valid(params)) =>
        LET tubes == result.value.tubes
        IN  /\ Len(tubes) = params.no_of_rows * params.tubes_per_row
            /\ \A i \in 1..Len(tubes) :
                 tubes[i][3] = FDiv(params.tube_diameter, Two)

\* the return-end view of a valid grid of several rows and tubes
C9_Witness ==
    /\ op = "return"
    /\ Valid(params)
    /\ params.no_of_rows >= 2
    /\ params.tubes_per_row >= 3
    /\ Len(result.value.tubes) >= 6

\* the cy of tube t (0-based) of row r (0-based) in a side view's tubes list
TubeY(geo, r, t) == geo.tubes[r * geo.params.tubes_per_row + t + 1][2]

\* in a side view: even rows start at grid_y + VP/4, odd rows at
\* grid_y + 3*VP/4, and tube t of a row is at y_start + t*VP
StaggerPlacement(geo) ==
    LET p      == geo.params
        VP     == vertical_pitch(p)
        grid_y == geo.inner_rect[2]
    IN  \A r \in 0..(p.no_of_rows - 1) :
          LET y_start == FAdd(grid_y, IF r % 2 = 0 THEN FDiv(VP, Four)
                                      ELSE FDiv(FMul(Three, VP), Four))
          IN  \A t \in 0..(p.tubes_per_row - 1) :
                TubeY(geo, r, t) = FAdd(y_start, FMul(FromInt(t), VP))

\* C10 as stated: the placement above, and the starts of an even and an odd
\* row differ by exactly VP/2.
C10_StaggerExact ==
    (op \in {"header", "return"} /\ Valid(params)) =>
        LET geo == result.value
            VP  == vertical_pitch(params)
        IN  /\ StaggerPlacement(geo)
            /\ \A r \in 0..(params.no_of_rows - 1) :
               \A q \in 0..(params.no_of_rows - 1) :
                 (r % 2 = 0 /\ q % 2 = 1) =>
                   FCmp(ExactSub(TubeY(geo, q, 0), TubeY(geo, r, 0)),
                        Scale(VP, -1)) = 0

\* C10 amended: the placement above holds exactly, and the starts of an even
\* and an odd row differ by VP/2 up to the rounding of the two sums: the
\* error is at most two units in the last place of the coordinates involved.
C10_StaggerWithinRounding ==
    (op \in {"header", "return"} /\ Valid(params)) =>
        LET geo == result.value
            VP  == vertical_pitch(params)
        IN  /\ StaggerPlacement(geo)
            /\ \A r \in 0..(params.no_of_rows - 1) :
               \A q \in 0..(params.no_of_rows - 1) :
                 (r % 2 = 0 /\ q % 2 = 1) =>
                   LET even == TubeY(geo, r, 0)
                       odd  == TubeY(geo, q, 0)
                       err  == FAbs(ExactSub(ExactSub(odd, even), Scale(VP, -1)))
                       size == ExactAdd(ExactAdd(FAbs(even), FAbs(odd)), FAbs(VP))
                   IN  FLe(Scale(err, MantBits - 1), size)

\* a side view of a valid record with rows of both parities whose starts
\* are rounded
C10_Witness ==
    /\ op = "header"
    /\ Valid(params)
    /\ params.no_of_rows >= 2
    /\ params.tubes_per_row >= 2
    /\ FCmp(ExactSub(TubeY(result.value, 1, 0), TubeY(result.value, 0, 0)),
            Scale(vertical_pitch(params), -1)) # 0

\* ------------------------------------------------------------------------
\*  Layout: the four views of one record side by side
\* ------------------------------------------------------------------------

\* generate_layout returned a layout
LaidOut == op = "layout" /\ ~result.raised

\* the views of the returned layout, by position in the views list
TopView    == result.value.views[1]
HeaderView == result.value.views[2]
FrontView  == result.value.views[3]
ReturnView == result.value.views[4]

\* cx of the tubes of row r of a side view
TubeX(geo, r) == geo.tubes[r * geo.params.tubes_per_row + 1][1]

\* rows that have tubes
TubeRows(p) == IF p.tubes_per_row >= 1 THEN 0..(p.no_of_rows - 1) ELSE {}

\* err is at most 2^(k - MantBits) times size: k binary places above the
\* last place of size
WithinPlaces(err, size, k) == FLe(Scale(FAbs(err), MantBits - k), FAbs(size))

\* C11 as stated: in the two side views of one record the return-end X of
\* every row r equals grid_x + grid_w - header_view_X(r), here even allowing
\* for the rounding of the sums.
C11_MirrorAsStated ==
    LaidOut =>
        LET hdr    == HeaderView.geometry
            ret    == ReturnView.geometry
            grid_x == ret.inner_rect[1]
            grid_w == ret.inner_rect[3]
        IN  \A r \in TubeRows(params) :
              LET stated == ExactSub(ExactAdd(grid_x, grid_w), TubeX(hdr, r))
                  size   == ExactAdd(ExactAdd(FAbs(grid_x), FAbs(grid_w)),
                                     FAbs(TubeX(hdr, r)))
              IN  WithinPlaces(ExactSub(TubeX(ret, r), stated), size, 3)

\* C11 amended: the return-end X of row r is the mirror image of the
\* header-side X about the centre line of the tube grid, each view with its
\* own grid origin: grid_x + grid_w - (header_view_X(r) - header grid_x), up
\* to the rounding of the sums (at most eight units in the last place of the
\* terms).
C11_MirrorAboutGridCentre ==
    LaidOut =>
        LET hdr      == HeaderView.geometry
            ret      == ReturnView.geometry
            grid_x   == ret.inner_rect[1]
            grid_w   == ret.inner_rect[3]
            hdr_grid == hdr.inner_rect[1]
        IN  \A r \in TubeRows(params) :
              LET from_grid == ExactSub(TubeX(hdr, r), hdr_grid)
                  mirror    == ExactSub(ExactAdd(grid_x, grid_w), from_grid)
                  size      == ExactAdd(ExactAdd(FAbs(grid_x), FAbs(grid_w)),
                                        ExactAdd(FAbs(TubeX(hdr, r)),
                                                 FAbs(hdr_grid)))
              IN  WithinPlaces(ExactSub(TubeX(ret, r), mirror), size, 3)

\* a layout of a record with several rows whose tube grid is narrower than
\* the header plate, so that the grid origin is not 0, and whose two side
\* views differ in the first row
C11_Witness ==
    /\ LaidOut
    /\ params.no_of_rows >= 2
    /\ params.tubes_per_row >= 1
    /\ FCmp(HeaderView.geometry.inner_rect[1], Zero) > 0
    /\ TubeX(HeaderView.geometry, 0) # TubeX(ReturnView.geometry, 0)

\* the span of a side of a view's bounding box: the view offset plus the
\* outer rectangle's origin and extent along one axis (1 = x, 2 = y); a
\* rectangle of negative extent covers the span to the other side of its
\* origin
BoxSpan(view, axis) ==
    LET offset == IF axis = 1 THEN view.offset_x ELSE view.offset_y
        a      == FAdd(offset, view.geometry.outer_rect[axis])
        b      == FAdd(a, view.geometry.outer_rect[axis + 2])
    IN  IF FLe(a, b) THEN <<a, b>> ELSE <<b, a>>

\* two spans share more than an end point
SpansOverlap(s, t) == FLt(s[1], t[2]) /\ FLt(t[1], s[2])

\* two bounding boxes share an area
BoxesIntersect(v, w) ==
    /\ SpansOverlap(BoxSpan(v, 1), BoxSpan(w, 1))
    /\ SpansOverlap(BoxSpan(v, 2), BoxSpan(w, 2))

\* C12: in the layout of a record that validate_parameters accepts, no two
\* of the four view bounding boxes intersect.
C12_ViewsDisjoint ==
    (LaidOut /\ Valid(params)) =>
        \A i \in 1..4 : \A j \in 1..4 :
            i < j => ~BoxesIntersect(result.value.views[i], result.value.views[j])

\* width and height of a view: the extent of its outer rectangle
ViewWidth(view)  == view.geometry.outer_rect[3]
ViewHeight(view) == view.geometry.outer_rect[4]

\* C13: the header-side view is at x = 0, the front view at header width +
\* 80, the return-end view at front x + front width + 80, and the plan view
\* at the front view's x, which for a valid record is not the header view's.
C13_LayoutXOffsets ==
    LaidOut =>
        /\ HeaderView.label = "HEADER SIDE" /\ FrontView.label = "FRONT"
        /\ ReturnView.label = "RETURN END SIDE" /\ TopView.label = "TOP"
        /\ HeaderView.offset_x = Zero
        /\ FrontView.offset_x = FAdd(ViewWidth(HeaderView), FromInt(80))
        /\ ReturnView.offset_x =
               FAdd(FAdd(FrontView.offset_x, ViewWidth(FrontView)), FromInt(80))
        /\ TopView.offset_x = FrontView.offset_x
        /\ Valid(params) => TopView.offset_x # HeaderView.offset_x

\* a layout of a valid record whose three bottom-row views have three
\* different x offsets
C13_Witness ==
    /\ LaidOut
    /\ Valid(params)
    /\ FLt(HeaderView.offset_x, FrontView.offset_x)
    /\ FLt(FrontView.offset_x, ReturnView.offset_x)
    /\ FCmp(ViewWidth(HeaderView), ViewWidth(FrontView)) # 0

\* the height of the tallest of the three bottom-row views
TallestBottom ==
    CHOOSE m \in {ViewHeight(FrontView), ViewHeight(HeaderView), ViewHeight(ReturnView)} :
        /\ FLe(ViewHeight(FrontView), m)
        /\ FLe(ViewHeight(HeaderView), m)
        /\ FLe(ViewHeight(ReturnView), m)

\* C14: the plan view is at y = 0, the three bottom-row views share y =
\* plan-view height + 80, the notes and the title block share y = bottom-row
\* y + the tallest bottom-row height + 40, the notes at the header view's x
\* and the title block at the return-end view's x.
C14_LayoutYOffsets ==
    LaidOut =>
        LET layout   == result.value
            bottom_y == FAdd(ViewHeight(TopView), FromInt(80))
            notes_y  == FAdd(FAdd(bottom_y, TallestBottom), FromInt(40))
        IN  /\ TopView.offset_y = Zero
            /\ HeaderView.offset_y = bottom_y
            /\ FrontView.offset_y = bottom_y
            /\ ReturnView.offset_y = bottom_y
            /\ layout.notes_offset = <<HeaderView.offset_x, notes_y>>
            /\ layout.title_block_offset = <<ReturnView.offset_x, notes_y>>

\* a layout of a valid record whose side views are taller than its front
\* view, and whose notes and title block lie below the bottom row at
\* different x
C14_Witness ==
    /\ LaidOut
    /\ Valid(params)
    /\ FLt(ViewHeight(FrontView), ViewHeight(HeaderView))
    /\ FLt(FrontView.offset_y, result.value.notes_offset[2])
    /\ result.value.notes_offset[1] # result.value.title_block_offset[1]

\* ------------------------------------------------------------------------
\*  Dimension primitives
\* ------------------------------------------------------------------------

\* the measured points and the label of the dimension the last call built
P1 == args.p1
P2 == args.p2
Label == result.value.texts[1][3]

\* the decimal numeral of n tenths: "4.2" for 42
TenthsStr(n) == NatStr(n \div 10) \o "." \o Digits[(n % 10) + 1]

\* s is the value x written with one decimal place: s is the numeral of n
\* tenths, with no sign, for an n within half a tenth of x
OneDecimalOf(s, x) ==
    LET tenx == <<10 * x[1], x[2]>>
        t    == FTrunc(FMul(FromInt(10), x))
    IN  \E n \in {t - 1, t, t + 1} :
            /\ n >= 0
            /\ s = TenthsStr(n)
            /\ FLe(FAbs(Scale(ExactSub(tenx, <<n, 0>>), 1)), FromInt(1))

\* C16: a horizontal dimension built with no override text carries
\* abs(p2.x - p1.x) to one decimal place, a vertical one abs(p2.y - p1.y);
\* an override text is carried unchanged.
C16_DefaultLabel ==
    (op \in {"hdim", "vdim"}) =>
        LET axis == IF op = "hdim" THEN 1 ELSE 2
        IN  IF args.text = NoText
            THEN OneDecimalOf(Label, FAbs(FSub(P2[axis], P1[axis])))
            ELSE Label = args.text[1]

\* a horizontal dimension with no override text measured from right to
\* left over a distance with a fractional part, so that abs() and the
\* decimal place both matter
C16_Witness ==
    /\ op = "hdim"
    /\ args.text = NoText
    /\ FLt(P2[1], P1[1])
    /\ Label = "41.5"

\* the coordinate of the dimension line of the dimension d across the
\* measured axis: y of a horizontal dimension, x of a vertical one
DimLineAt(d, kind) == IF kind = "hdim" THEN d.lines[3][2] ELSE d.lines[3][1]

\* the same coordinate of the first measured point
MeasuredAt(kind) == IF kind = "hdim" THEN P1[2] ELSE P1[1]

\* the side of the measured segment the dimension line of d is on: 1, -1,
\* or 0 when on the segment
SideOf(d, kind) == FCmp(DimLineAt(d, kind), MeasuredAt(kind))

\* the dimension the same call builds with the offset negated
WithOffsetNegated ==
    IF op = "hdim" THEN hdim(P1, P2, FNeg(args.offset), args.text, args.flag)
    ELSE vdim(P1, P2, FNeg(args.offset), args.text, args.flag)

AsXY(along, across, kind) ==
    IF kind = "hdim" THEN <<along, across>> ELSE <<across, along>>

\* the coordinate of a point along and across the measured axis
Along(pt, kind)  == IF kind = "hdim" THEN pt[1] ELSE pt[2]
Across(pt, kind) == IF kind = "hdim" THEN pt[2] ELSE pt[1]

LineStart(l) == <<l[1], l[2]>>
LineEnd(l)   == <<l[3], l[4]>>

\* v lies between a and b, ends included
Between(v, a, b) == (FLe(a, v) /\ FLe(v, b)) \/ (FLe(b, v) /\ FLe(v, a))

RefCos20 ==
    -55 :> 601438 @@ -25 :> 950333 @@ -5 :> 1044586 @@ 20 :> 985339 @@
    25 :> 950333 @@ 65 :> 443147 @@ 70 :> 358634 @@ 115 :> -443147 @@
    155 :> -950333 @@ 205 :> -950333 @@ 245 :> -443147 @@ 295 :> 443147

RefSin20 ==
    -55 :> -858943 @@ -25 :> -443147 @@ -5 :> -91389 @@ 20 :> 358634 @@
    25 :> 443147 @@ 65 :> 950333 @@ 70 :> 985339 @@ 115 :> 950333 @@
    155 :> 443147 @@ 205 :> -443147 @@ 245 :> -950333 @@ 295 :> -950333

\* the legs of the arrowhead the last call built, and its tip
Legs == result.value
Tip  == <<args.tx, args.ty>>

\* the vector of a leg from its start to its end, exact, as a pair of
\* integers in units of 2^-13 (every coordinate of the inputs is a multiple
\* of that unit)
Fx13(x) == IF x[2] >= -13 THEN x[1] * 2^(x[2] + 13)
           ELSE x[1] \div 2^(-13 - x[2])

LegVector(leg) ==
    << Fx13(ExactSub(leg[3], leg[1])), Fx13(ExactSub(leg[4], leg[2])) >>

\* the square of the length of a leg, in units of 2^-26
LengthSquared(leg) == LegVector(leg)[1]^2 + LegVector(leg)[2]^2

\* C19 as stated: two segments, both starting at the tip, both of length
\* exactly 3.0.
C19_LegsOfLengthThree ==
    (op = "arrow") =>
        /\ Len(Legs) = 2
        /\ \A i \in 1..2 :
             /\ LineStart(Legs[i]) = Tip
             /\ LengthSquared(Legs[i]) = 9 * 2^26

\* the end of the leg departing at s * 25 degrees from the reversed
\* direction: tip - 3 * (cos, sin)(a + s * 25 degrees), exact up to the
\* reference values' 2^-20
LegEnd(axis, s) ==
    LET deg == FTrunc(args.a_deg) + 25 * s
        ref == IF axis = 1 THEN RefCos20[deg] ELSE RefSin20[deg]
    IN  ExactSub(Tip[axis], <<3 * ref, -20>>)

\* C19 amended: two segments, both starting at the tip; leg 1 ends at
\* tip - 3 (cos, sin)(a + 25 deg) and leg 2 at tip - 3 (cos, sin)(a - 25 deg),
\* that is 3.0 from the tip at +25 and -25 degrees from the reversed
\* direction, up to rounding: each coordinate is within sixteen units in
\* the last place of |tip coordinate| + 3.
C19_LegsWithinRounding ==
    (op = "arrow") =>
        /\ Len(Legs) = 2
        /\ \A i \in 1..2 :
             /\ LineStart(Legs[i]) = Tip
             /\ \A axis \in 1..2 :
                  WithinPlaces(
                      ExactSub(LineEnd(Legs[i])[axis],
                               LegEnd(axis, IF i = 1 THEN 1 ELSE -1)),
                      ExactAdd(FAbs(Tip[axis]), Three), 4)

\* an arrowhead at a tip away from the origin, pointing at 45 degrees,
\* whose first leg is not exactly 3.0 long
C19_Witness ==
    /\ op = "arrow"
    /\ args.tx = Dec(1001, 1)
    /\ args.a_deg = FromInt(45)
    /\ Legs[1] # Legs[2]
    /\ LengthSquared(Legs[1]) # 9 * 2^26

\* ------------------------------------------------------------------------
\*  Top view: return bend arcs
\* ------------------------------------------------------------------------

\* the bend arcs of the top view the last call built
Arcs == result.value.bend_arcs

\* the centreline of a row of the top view: margin + RP/2 + row * RP
RowCentre(row) ==
    FAdd(FAdd(result.value.margin, FDiv(row_pitch(params), Two)),
         FMul(FromInt(row), row_pitch(params)))

\* one arc for each pair of rows (0,1), (2,3), ...: floor(no_of_rows / 2)
\* arcs, the k-th centred midway between rows 2k and 2k+1, and no arc on the
\* last row of an odd count
ArcPairing ==
    LET NR == params.no_of_rows
    IN  /\ Len(Arcs) = NR \div 2
        /\ \A k \in 0..(Len(Arcs) - 1) :
             /\ 2 * k + 1 <= NR - 1
             /\ Arcs[k + 1][2] =
                    FDiv(FAdd(RowCentre(2 * k), RowCentre(2 * k + 1)), Two)
        /\ NR % 2 = 1 => \A k \in 0..(Len(Arcs) - 1) : 2 * k + 1 < NR - 1

\* C20 as stated: the pairing above, and every arc's radius is row_pitch/2.
C20_ArcRadiusExact ==
    (op = "top" /\ params.no_of_rows >= 0) =>
        /\ ArcPairing
        /\ \A k \in 1..Len(Arcs) : Arcs[k][3] = FDiv(row_pitch(params), Two)

\* C20 amended: the pairing above holds, and every arc's radius is half the
\* rounded difference of its two centrelines: row_pitch/2 up to rounding,
\* within eight units in the last place of the centrelines and the margin.
C20_ArcRadiusWithinRounding ==
    (op = "top" /\ params.no_of_rows >= 0) =>
        /\ ArcPairing
        /\ \A k \in 0..(Len(Arcs) - 1) :
             LET y1   == RowCentre(2 * k)
                 y2   == RowCentre(2 * k + 1)
                 size == ExactAdd(ExactAdd(FAbs(y1), FAbs(y2)),
                                  FAbs(result.value.margin))
             IN  /\ Arcs[k + 1][3] = FDiv(FSub(y2, y1), Two)
                 /\ WithinPlaces(
                        ExactSub(Arcs[k + 1][3], Scale(row_pitch(params), -1)),
                        size, 3)

\* the top view of a valid record with an odd number of rows, at least
\* three: one arc for rows 0 and 1, none for the last row
C20_Witness ==
    /\ op = "top"
    /\ Valid(params)
    /\ params.no_of_rows = 3
    /\ Len(Arcs) = 1
    /\ FLt(Arcs[1][2], RowCentre(1))

\* ------------------------------------------------------------------------
\*  Top view: connection pipes
\* ------------------------------------------------------------------------

\* the top view of the same record with the connections on the left
LeftHanded == generate_top_geometry([params EXCEPT !.connection_side = "LHS"]).value

\* x is the mirror image of u about x = casing_width / 2, up to the
\* rounding of the sums: casing_width - u within eight units in the last
\* place
MirrorOf(x, u) ==
    LET CW == casing_width(params)
    IN  WithinPlaces(ExactSub(x, ExactSub(CW, u)),
                     ExactAdd(ExactAdd(FAbs(x), FAbs(u)), FAbs(CW)), 3)

\* C21: for both connection sides the top view has, per pipe (IN and OUT),
\* one line, two fitting circles and two stub lines, and the right-hand
\* pipe lines, fitting circles, stub lines and label positions are the
\* mirror images about x = casing_width / 2 of the left-hand ones.
C21_ConnectionMirror ==
    (op = "top") =>
        LET geo == result.value
            lhs == LeftHanded
        IN  /\ Len(geo.connection_pipes) = 2
            /\ Len(geo.pipe_circles) = 2 * 2
            /\ Len(geo.pipe_stubs) = 2 * 2
            /\ params.connection_side = "RHS" =>
                 /\ \A i \in 1..2 :
                      LET r == geo.connection_pipes[i]
                          l == lhs.connection_pipes[i]
                      IN  /\ r.label = l.label
                          /\ MirrorOf(r.line[1], l.line[3])
                          /\ MirrorOf(r.line[3], l.line[1])
                          /\ r.line[2] = l.line[2] /\ r.line[4] = l.line[4]
                          /\ MirrorOf(r.label_pos[1], l.label_pos[1])
                          /\ r.label_pos[2] = l.label_pos[2]
                 /\ \A i \in 1..4 :
                      /\ MirrorOf(geo.pipe_circles[i][1], lhs.pipe_circles[i][1])
                      /\ geo.pipe_circles[i][2] = lhs.pipe_circles[i][2]
                      /\ geo.pipe_circles[i][3] = lhs.pipe_circles[i][3]
                 /\ \A i \in 1..4 :
                      \E j \in 1..4 :
                        /\ MirrorOf(geo.pipe_stubs[i][1], lhs.pipe_stubs[j][1])
                        /\ geo.pipe_stubs[i][2] = lhs.pipe_stubs[j][2]
                        /\ geo.pipe_stubs[i][4] = lhs.pipe_stubs[j][4]

\* ------------------------------------------------------------------------
\*  Side views: the outer rectangle
\* ------------------------------------------------------------------------

\* the height rule of the side views: tubes_per_row * vertical_pitch +
\* top_plate + bottom_plate
SideHeight(p) ==
    FAdd(FAdd(FMul(FromInt(p.tubes_per_row), vertical_pitch(p)), p.top_plate),
         p.bottom_plate)

\* the depth field a side view takes its width from
SideDepth(p, kind) == IF kind = "header" THEN p.header_depth ELSE p.return_depth

FinSpacing == FDiv(Dec(254, 1), FromInt(params.fpi))
FinCount   == FTrunc(FDiv(params.fin_height, FinSpacing))
FinStep    == IF FinCount \div 40 > 1 THEN FinCount \div 40 ELSE 1

\* the fin indices 0, step, 2 * step, ... below n
SampledFins == {i \in 0..(FinCount - 1) : i % FinStep = 0}

\* the height of fin i and the line drawn for it
FinY(i) == FAdd(params.casing_bottom, FMul(FromInt(i), FinSpacing))
FinLine(i) ==
    <<params.casing_left, FinY(i),
      FAdd(params.casing_left, params.fin_length), FinY(i)>>

FinTop == FAdd(params.casing_bottom, params.fin_height)

\* the sampled fins whose height is below the top of the fin rectangle
FinsBelowTop == {i \in SampledFins : FLt(FinY(i), FinTop)}

\* the lines drawn are those of the fins of the set S, one each
DrawnAre(S) ==
    /\ Len(result.value.fin_lines) = Cardinality(S)
    /\ Range(result.value.fin_lines) = {FinLine(i) : i \in S}

\* the sampling keeps the count near 40: n below 40, else 40 to 79
NearForty(count) ==
    IF FinCount < 40 THEN count = FinCount ELSE count >= 40 /\ count <= 79

\* every drawn line spans the fin rectangle's width at a height inside it
LinesInsideFinRect ==
    \A k \in 1..Len(result.value.fin_lines) :
        LET l == result.value.fin_lines[k]
        IN  /\ l[1] = result.value.fin_rect[1]
            /\ l[3] = FAdd(result.value.fin_rect[1], result.value.fin_rect[3])
            /\ l[2] = l[4]
            /\ FLe(params.casing_bottom, l[2])
            /\ FLt(l[2], FinTop)

\* C24 as stated: exactly the sampled fins are drawn, so the number of
\* lines is n below 40 and between 40 and 79 otherwise, each line inside
\* the fin rectangle.
C24_SampledFinsDrawn ==
    (op = "front" /\ Valid(params)) =>
        /\ DrawnAre(SampledFins)
        /\ NearForty(Len(result.value.fin_lines))
        /\ LinesInsideFinRect

\* C24 amended: of the sampled fins those whose rounded height is below
\* the top of the fin rectangle are drawn; the number of sampled fins is n
\* below 40 and between 40 and 79 otherwise, the number of lines is at most
\* that, and each line is inside the fin rectangle.
C24_SampledFinsBelowTopDrawn ==
    (op = "front" /\ Valid(params)) =>
        /\ DrawnAre(FinsBelowTop)
        /\ NearForty(Cardinality(SampledFins))
        /\ Len(result.value.fin_lines) <= Cardinality(SampledFins)
        /\ LinesInsideFinRect

\* the front view of a valid record with more than 40 fins, on a casing
\* bottom of the order of the fin spacing: every sampled fin is drawn
C24_Witness ==
    /\ op = "front"
    /\ Valid(params)
    /\ FinCount > 80
    /\ FinStep > 1
    /\ Len(result.value.fin_lines) > 40
    /\ FinsBelowTop = SampledFins


\* ------------------------------------------------------------------------
\*  C25: validation is the sole gate before generation
\* ------------------------------------------------------------------------

\* the record generate_layout was called with by the last request, if any
Invoked == args # <<>>

\* C25: over any sequence of Generate and Export requests, generate_layout
\* is only ever invoked with a record for which validate_parameters returns
\* an empty list, and a Generate request whose record fails validation
\* leaves the canvas's current layout unchanged
C25_ValidationIsSoleGate ==
    /\ [](Invoked => Valid(args.params))
    /\ [][ (op' = "generate" /\ ~Valid(params)) =>
              (result' = result /\ ~Invoked') ]_vars

\* a Generate request on a record that fails validation, made while the
\* canvas shows the layout of another, two-row record
C25_Witness ==
    /\ op = "generate"
    /\ ~Valid(params)
    /\ ~Invoked
    /\ result.value # <<>>
    /\ result.value.views[2].geometry.params.no_of_rows = 2
    /\ params.no_of_rows = 1


\* ------------------------------------------------------------------------
\*  C26: the dimension rows above the casing in the top view
\* ------------------------------------------------------------------------

\* the pipe-run, pipe-extension and header-block-length dimensions: the
\* eighth, ninth and tenth records of generate_top_dimensions
AboveRows == {8, 9, 10}

\* C26: in the top view, whose frame is Y-down with its origin at the
\* casing's top-left, every dimension row placed above the casing has its
\* dimension line at a negative Y coordinate, outside the casing rectangle
C26_AboveRowsAtNegativeY ==
    (op = "top" /\ ~result.raised) =>
        \A i \in AboveRows :
            FLt(DimLineAt(generate_top_dimensions(result.value)[i], "hdim"),
                Zero)


\* ------------------------------------------------------------------------
\*  C27: the fixed sequences of the per-view dimension functions
\* ------------------------------------------------------------------------

\* the geometry record the dimension function was called on, and its result
Geo  == args.geo
Dims == result.value

\* a linear dimension record: two extension lines and the dimension line,
\* two arrowheads, one label
IsLinear(d) == Len(d.lines) = 3 /\ Len(d.arrows) = 2 /\ Len(d.texts) = 1

\* the dimension line of d runs along the axis of kind from a to b
Measures(d, kind, a, b) ==
    /\ IsLinear(d)
    /\ Along(LineStart(d.lines[3]), kind) = a
    /\ Along(LineEnd(d.lines[3]), kind) = b
    /\ Across(LineStart(d.lines[3]), kind) = Across(LineEnd(d.lines[3]), kind)

\* the ten records of the front view, in their order
FrontSequence ==
    LET ox == Geo.outer_rect[1]
        oy == Geo.outer_rect[2]
        right == FAdd(ox, Geo.outer_rect[3])
        top   == FAdd(oy, Geo.outer_rect[4])
        fx == Geo.fin_rect[1]
        fy == Geo.fin_rect[2]
        fin_right == FAdd(fx, Geo.fin_rect[3])
        fin_top   == FAdd(fy, Geo.fin_rect[4])
        p == Geo.params
    IN  /\ Len(Dims) = 10
        /\ Measures(Dims[1], "hdim", fx, fin_right)
        /\ Measures(Dims[2], "hdim", ox, right)
        /\ Measures(Dims[3], "hdim", ox, fx)
        /\ Measures(Dims[4], "hdim", fin_right, right)
        /\ Measures(Dims[5], "vdim", fy, fin_top)
        /\ Measures(Dims[6], "vdim", oy, top)
        /\ Measures(Dims[7], "vdim", oy, fy)
        /\ Measures(Dims[8], "vdim", fin_top, top)
        /\ Measures(Dims[9], "vdim", fy,
                    FAdd(FAdd(fy, p.bottom_plate),
                         p.front_left_reference_extra))
        /\ Dims[10].lines = <<>>
        /\ Dims[10].arrows = <<>>
        /\ Len(Dims[10].texts) = 1
        /\ Dims[10].texts[1][3] = IntStr(p.fpi) \o " FPI"

\* the number of records each function emits
FixedLength ==
    [front_dims |-> 10, header_dims |-> 6, return_dims |-> 6, top_dims |-> 16]

\* C27: each per-view dimension function emits a sequence of fixed length
\* whatever the parameter values: 10 records for the front view (fin
\* length, casing width, left margin, right margin, fin height, casing
\* height, bottom margin, top margin, reference dimension, then the
\* fins-per-inch label with no lines and no arrows), 6 for the header-side
\* view, 6 for the return-end view, 16 for the top view; and the empty
\* list when the geometry record carries no parameter record
C27_FixedSequences ==
    op \in DOMAIN FixedLength =>
        IF NoParams(Geo) THEN Dims = <<>>
        ELSE /\ Len(Dims) = FixedLength[op]
             /\ op = "front_dims" => FrontSequence
             /\ op # "front_dims" => \A i \in 1..Len(Dims) : IsLinear(Dims[i])

\* the front view's dimensions of a 40-fins-per-inch record
C27_Witness ==
    /\ op = "front_dims"
    /\ ~NoParams(Geo)
    /\ Geo.params.fpi = 40
    /\ Len(Dims) = 10
    /\ Dims[10].texts[1][3] = "40 FPI"


\* ------------------------------------------------------------------------
\*  C28: the tube grid inside the side views, the coil strip inside the
\*  casing of the top view
\* ------------------------------------------------------------------------

\* the tube grid rectangle of a side view: x, y, width, height
GridRect(geo) == geo.inner_rect

\* C28: for every record validate_parameters accepts, the tube grid
\* rectangle of the header-side and return-end views lies inside the view's
\* outer rectangle (0 <= grid_x and grid_x + grid_w <= view width), and the
\* top view's coil-strip margin (header_depth - coil_depth) / 2 is not
\* negative
C28_GridInsideView ==
    (Valid(params) /\ ~result.raised) =>
        /\ op \in {"header", "return"} =>
              /\ FLe(Zero, GridRect(result.value)[1])
              /\ FLe(FAdd(GridRect(result.value)[1], GridRect(result.value)[3]),
                     result.value.outer_rect[3])
        /\ op = "top" => FLe(Zero, result.value.margin)


\* ------------------------------------------------------------------------
\*  C29: the tube centres inside the tube grid rectangle
\* ------------------------------------------------------------------------

\* lo <= v <= hi
InsideExactly(v, lo, hi) == FLe(lo, v) /\ FLe(v, hi)

\* lo <= v <= hi, or v is beyond an end by no more than the rounding of
\* coordinates of magnitude size
InsideWithinRounding(v, lo, hi, size) ==
    /\ FLe(lo, v) \/ WithinPlaces(ExactSub(lo, v), size, 2)
    /\ FLe(v, hi) \/ WithinPlaces(ExactSub(v, hi), size, 2)

\* the right and the top of the tube grid rectangle, as the claim writes them
GridRight(geo) == FAdd(GridRect(geo)[1], GridRect(geo)[3])
GridTop(geo)   == FAdd(GridRect(geo)[2], GridRect(geo)[4])

\* C29: for every valid record, every tube centre of the header-side and
\* return-end views lies inside that view's tube grid rectangle:
\* grid_x <= cx <= grid_x + grid_w and grid_y <= cy <= grid_y + grid_h, for
\* every row and every tube index
C29_TubesInsideGrid ==
    (op \in {"header", "return"} /\ Valid(params)) =>
        LET geo == result.value
        IN  \A i \in 1..Len(geo.tubes) :
              /\ InsideExactly(geo.tubes[i][1], GridRect(geo)[1], GridRight(geo))
              /\ InsideExactly(geo.tubes[i][2], GridRect(geo)[2], GridTop(geo))

\* C29 amended: every tube centre lies inside the tube grid rectangle up to
\* the rounding of the coordinates: it is beyond an edge by at most a few
\* units in the last place of the grid's coordinates
C29_TubesInsideGridWithinRounding ==
    (op \in {"header", "return"} /\ Valid(params)) =>
        LET geo   == result.value
            xsize == ExactAdd(FAbs(GridRect(geo)[1]), FAbs(GridRect(geo)[3]))
            ysize == ExactAdd(FAbs(GridRect(geo)[2]), FAbs(GridRect(geo)[4]))
        IN  \A i \in 1..Len(geo.tubes) :
              /\ InsideWithinRounding(geo.tubes[i][1], GridRect(geo)[1],
                                      GridRight(geo), xsize)
              /\ InsideWithinRounding(geo.tubes[i][2], GridRect(geo)[2],
                                      GridTop(geo), ysize)

\* a side view of a valid record with several rows of several tubes, one of
\* whose centres the rounding has put beyond an edge of the grid
C29_Witness ==
    /\ op \in {"header", "return"}
    /\ Valid(params)
    /\ params.no_of_rows >= 2
    /\ params.tubes_per_row >= 2
    /\ \E i \in 1..Len(result.value.tubes) :
          ~InsideExactly(result.value.tubes[i][1], GridRect(result.value)[1],
                         GridRight(result.value))


\* ------------------------------------------------------------------------
\*  C30: the top view's dimensions and connection_side
\* ------------------------------------------------------------------------

\* the record at hand with its connections on the other side
OtherSide ==
    [params EXCEPT !.connection_side = IF @ = "LHS" THEN "RHS" ELSE "LHS"]

\* the pipe-extension and the pipe-gap dimension: the fifth and the twelfth
\* record of generate_top_dimensions
PipeExtensionDim == Dims[5]
PipeGapDim       == Dims[12]

\* C30: the top view's dimension records do not depend on connection_side:
\* for two records that differ only in connection_side, generate_top_dimensions
\* returns equal lists, so the pipe-extension and pipe-gap dimensions are
\* placed left of the casing even when the pipes are drawn on the right
C30_DimensionsIgnoreSide ==
    (op = "top_dims" /\ ~NoParams(Geo)) =>
        /\ Dims = generate_top_dimensions(generate_top_geometry(OtherSide).value)
        /\ (Valid(params) /\ params.connection_side = "RHS") =>
              /\ \A i \in 1..Len(Geo.connection_pipes) :
                    FLt(Geo.outer_rect[3], Geo.connection_pipes[i].line[3])
              /\ FLt(Along(LineStart(PipeExtensionDim.lines[3]), "hdim"), Zero)
              /\ FLe(Along(LineEnd(PipeExtensionDim.lines[3]), "hdim"), Zero)
              /\ FLt(DimLineAt(PipeGapDim, "vdim"), Zero)

\* the top view's dimensions of a valid record with its pipes on the right
C30_Witness ==
    /\ op = "top_dims"
    /\ ~NoParams(Geo)
    /\ Valid(params)
    /\ params.connection_side = "RHS"
    /\ params.no_of_rows = 2
    /\ Len(Dims) = 16
    /\ Len(Geo.connection_pipes) = 2
=============================================================================
